---- MODULE Spec2Model ----
(***************************************************************************)
(* A model of the QCA annotator's annotation-surface engine: the Canvas    *)
(* component (line collections, edit mode, tracked transform), the Frame   *)
(* component that propagates lines between the image and the mask canvas,  *)
(* and the pixel walk of the forward propagation.                          *)
(*                                                                         *)
(* Numbers of the program are JavaScript doubles.  The model computes them *)
(* exactly as rationals <<n, d>> (d > 0, lowest terms); <<0, 0>> is NaN.   *)
(***************************************************************************)
EXTENDS Integers, Sequences, FiniteSets, TLC

(***************************************************************************)
(* Exact rational arithmetic                                               *)
(***************************************************************************)
RECURSIVE Gcd(_, _)
Gcd(a, b) == IF b = 0 THEN a ELSE Gcd(b, a % b)

AbsInt(n) == IF n < 0 THEN -n ELSE n

NaN == <<0, 0>>

IsNaN(r) == r[2] = 0

\* The rational n/d in lowest terms with a positive denominator (0/0 is NaN).
Rat(n, d) ==
  IF d = 0 THEN NaN
  ELSE LET g == Gcd(AbsInt(n), AbsInt(d))
           s == IF d < 0 THEN -1 ELSE 1
       IN  <<(s * n) \div g, (s * d) \div g>>

R(n) == <<n, 1>>

RAdd(p, q) == IF IsNaN(p) \/ IsNaN(q) THEN NaN ELSE Rat(p[1] * q[2] + q[1] * p[2], p[2] * q[2])

RNeg(p) == IF IsNaN(p) THEN NaN ELSE <<-p[1], p[2]>>

RSub(p, q) == RAdd(p, RNeg(q))

RMul(p, q) == IF IsNaN(p) \/ IsNaN(q) THEN NaN ELSE Rat(p[1] * q[1], p[2] * q[2])

\* p / q; the only division by zero the program performs is 0 / 0.
RDiv(p, q) == IF IsNaN(p) \/ IsNaN(q) THEN NaN ELSE Rat(p[1] * q[2], p[2] * q[1])

RAbs(p) == <<AbsInt(p[1]), p[2]>>

\* Comparisons with NaN are false, as in JavaScript.
RLt(p, q) == ~IsNaN(p) /\ ~IsNaN(q) /\ p[1] * q[2] < q[1] * p[2]

RLe(p, q) == ~IsNaN(p) /\ ~IsNaN(q) /\ p[1] * q[2] <= q[1] * p[2]

RGt(p, q) == RLt(q, p)

RGe(p, q) == RLe(q, p)

\* Math.round: the nearest integer, halves rounded towards +Infinity.
MathRound(p) == IF IsNaN(p) THEN NaN ELSE R((2 * p[1] + p[2]) \div (2 * p[2]))

RECURSIVE RPowNat(_, _)
RPowNat(p, k) == IF k = 0 THEN R(1) ELSE RMul(p, RPowNat(p, k - 1))

\* Math.pow(p, m) for an integer exponent m.
MathPow(p, m) == IF m >= 0 THEN RPowNat(p, m) ELSE RPowNat(RDiv(R(1), p), -m)

\* Math.sqrt(p) for p >= 0: a rational where p is the square of one, and
\* else the irrational root itself, written <<"sqrt", n, d>> for p = n/d.
MathSqrt(p) ==
  IF IsNaN(p) THEN NaN
  ELSE IF \E n \in 0 .. p[1], d \in 1 .. p[2] : n * n = p[1] /\ d * d = p[2]
  THEN <<CHOOSE n \in 0 .. p[1] : n * n = p[1], CHOOSE d \in 1 .. p[2] : d * d = p[2]>>
  ELSE <<"sqrt", p[1], p[2]>>

\* The square of a number MathSqrt returned.
Squared(r) == IF Len(r) = 3 THEN <<r[2], r[3]>> ELSE RMul(r, r)

\* Math.PI to seven digits.
MathPI == Rat(355, 113)

(***************************************************************************)
(* Binary64 numbers.  Canvas.zoomFactor and the factors of zoom are        *)
(* JavaScript numbers: every product and quotient is rounded to the        *)
(* nearest binary64, ties to even.  A natural of any size is a sequence of *)
(* limbs base LimbBase, least significant first, without a leading zero    *)
(* limb; a positive binary64 is [m, e] with a 53-bit m, of value m * 2^e.  *)
(* The zoom factors stay far from the subnormal and the infinite range.    *)
(***************************************************************************)
LimbBits == 14

LimbBase == 2 ^ LimbBits

BigLimb(x, i) == IF 1 <= i /\ i <= Len(x) THEN x[i] ELSE 0

\* x without its leading zero limbs.
BigTrim(x) ==
  LET used == {i \in 1 .. Len(x) : x[i] # 0}
  IN  IF used = {} THEN <<>>
      ELSE SubSeq(x, 1, CHOOSE n \in used : \A i \in used : i <= n)

\* x + y: limb i takes a carry when a limb below it overflows and the limbs
\* between pass the carry on.
BigAdd(x, y) ==
  LET n        == IF Len(x) > Len(y) THEN Len(x) ELSE Len(y)
      sum(i)   == BigLimb(x, i) + BigLimb(y, i)
      carry(i) == IF \E j \in 1 .. i - 1 :
                       /\ sum(j) >= LimbBase
                       /\ \A k \in j + 1 .. i - 1 : sum(k) = LimbBase - 1
                  THEN 1 ELSE 0
  IN  BigTrim([i \in 1 .. n + 1 |-> (sum(i) + carry(i)) % LimbBase])

\* x - y, for y <= x: limb i lends when a limb below it falls short and the
\* limbs between pass the borrow on.
BigSub(x, y) ==
  LET diff(i)   == BigLimb(x, i) - BigLimb(y, i)
      borrow(i) == IF \E j \in 1 .. i - 1 :
                        /\ diff(j) < 0
                        /\ \A k \in j + 1 .. i - 1 : diff(k) = 0
                   THEN 1 ELSE 0
  IN  BigTrim([i \in 1 .. Len(x) |-> (diff(i) - borrow(i) + LimbBase) % LimbBase])

BigLess(x, y) ==
  IF Len(x) # Len(y) THEN Len(x) < Len(y)
  ELSE \E i \in 1 .. Len(x) :
         /\ x[i] < y[i]
         /\ \A k \in i + 1 .. Len(x) : x[k] = y[k]

\* x * 2^k.
BigShiftLeft(x, k) ==
  LET w    == k \div LimbBits
      low  == 2 ^ (LimbBits - (k % LimbBits))
      high == 2 ^ (k % LimbBits)
  IN  BigTrim([i \in 1 .. Len(x) + w + 1 |->
                 (BigLimb(x, i - w) % low) * high + (BigLimb(x, i - w - 1) \div low)])

\* x \div 2^k.
BigShiftRight(x, k) ==
  LET w    == k \div LimbBits
      low  == 2 ^ (k % LimbBits)
      high == 2 ^ (LimbBits - (k % LimbBits))
  IN  BigTrim([i \in 1 .. Len(x) |->
                 (BigLimb(x, i + w) \div low) + (BigLimb(x, i + w + 1) % low) * high])

\* x * y, for x and y of four limbs at most (a binary64 has 53 bits): the
\* sum of the limb products of each column, split over three limbs.
BigMul(x, y) ==
  LET term(c, i) == BigLimb(x, i) * BigLimb(y, c + 1 - i)
      column(c)  == term(c, 1) + term(c, 2) + term(c, 3) + term(c, 4)
      columns    == [c \in 1 .. 7 |-> column(c)]
  IN  IF Len(x) = 0 \/ Len(y) = 0 THEN <<>>
      ELSE BigAdd(BigAdd([c \in 1 .. 7 |-> columns[c] % LimbBase],
                         [c \in 1 .. 8 |-> IF c = 1 THEN 0
                                           ELSE (columns[c - 1] \div LimbBase) % LimbBase]),
                  [c \in 1 .. 9 |-> IF c <= 2 THEN 0
                                    ELSE columns[c - 2] \div (LimbBase * LimbBase)])

BigBitLength(x) ==
  IF Len(x) = 0 THEN 0
  ELSE LimbBits * (Len(x) - 1)
         + (CHOOSE n \in 1 .. LimbBits : 2 ^ (n - 1) <= x[Len(x)] /\ x[Len(x)] < 2 ^ n)

\* Bit i of x, bit 0 the least significant.
BigBit(x, i) == (BigLimb(x, (i \div LimbBits) + 1) \div (2 ^ (i % LimbBits))) % 2

\* x * k, for 0 <= k <= LimbBase.
BigScale(x, k) ==
  BigAdd([i \in 1 .. Len(x) |-> (x[i] * k) % LimbBase],
         [i \in 1 .. Len(x) + 1 |-> IF i = 1 THEN 0 ELSE (x[i - 1] * k) \div LimbBase])

\* Quotient and remainder of n by d > 0, by long division over the limbs of
\* n, the most significant first.  Both are shifted to make the leading limb
\* of d at least LimbBase / 2: the quotient of the two leading limbs of the
\* running remainder by that limb is then the next limb of the quotient or
\* exceeds it by 2 at most.
BigDivMod(n, d) ==
  LET shift == LimbBits * Len(d) - BigBitLength(d)
      shifted(nn, dd) ==
        LET step(acc, r) ==
              LET top == (BigLimb(r, Len(dd) + 1) * LimbBase + BigLimb(r, Len(dd)))
                           \div dd[Len(dd)]
                  est == IF top < LimbBase THEN top ELSE LimbBase - 1
                  take(q) == [quotient  |-> BigTrim(<<q>> \o acc.quotient),
                              remainder |-> BigSub(r, BigScale(dd, q)),
                              limb      |-> acc.limb - 1]
              IN  take(CHOOSE k \in est - 2 .. est :
                         /\ k >= 0
                         /\ ~BigLess(r, BigScale(dd, k))
                         /\ BigLess(r, BigScale(dd, k + 1)))
            RECURSIVE from(_)
            from(acc) ==
              IF acc.limb = 0 THEN acc
              ELSE from(step(acc, BigTrim(<<nn[acc.limb]>> \o acc.remainder)))
            result(done) == [quotient  |-> done.quotient,
                             remainder |-> BigShiftRight(done.remainder, shift)]
        IN  result(from([quotient |-> <<>>, remainder |-> <<>>, limb |-> Len(nn)]))
  IN  shifted(BigShiftLeft(n, shift), BigShiftLeft(d, shift))

\* The binary64 nearest to a natural n > 0, ties to even; with inexact,
\* nearest to a value strictly between n and n + 1 (n of 54 bits or more).
Binary64(n, inexact) ==
  LET rounded(k, q) ==
        LET up(rest, half) == \/ BigLess(half, rest)
                              \/ rest = half /\ (inexact \/ BigBit(q, 0) = 1)
            result(m) == IF BigBitLength(m) > 53
                         THEN [e |-> k + 1, m |-> BigShiftRight(m, 1)]
                         ELSE [e |-> k, m |-> m]
        IN  result(IF up(BigSub(n, BigShiftLeft(q, k)), BigShiftLeft(<<1>>, k - 1))
                   THEN BigAdd(q, <<1>>) ELSE q)
      sized(len) == IF len <= 53
                    THEN [e |-> len - 53, m |-> BigShiftLeft(n, 53 - len)]
                    ELSE rounded(len - 53, BigShiftRight(n, len - 53))
  IN  sized(BigBitLength(n))

\* The number n, for a natural n of one limb.
Number(n) == Binary64(<<n>>, FALSE)

NumberMul(a, b) ==
  LET scaled(product) == [e |-> a.e + b.e + product.e, m |-> product.m]
  IN  scaled(Binary64(BigMul(a.m, b.m), FALSE))

NumberDiv(a, b) ==
  LET scaled(quotient) == [e |-> a.e - b.e - 55 + quotient.e, m |-> quotient.m]
      rounded(d) == scaled(Binary64(d.quotient, Len(d.remainder) > 0))
  IN  rounded(BigDivMod(BigShiftLeft(a.m, 55), b.m))

NumberLess(a, b) == IF a.e # b.e THEN a.e < b.e ELSE BigLess(a.m, b.m)

\* The number a decimal literal of the source denotes: the binary64 nearest
\* to the rational p.
NumberOf(p) == NumberDiv(Number(p[1]), Number(p[2]))

RECURSIVE NumberPowNat(_, _)
NumberPowNat(a, k) ==
  IF k = 0 THEN Number(1)
  ELSE IF k % 2 = 1 THEN NumberMul(NumberPowNat(a, k - 1), a)
  ELSE LET square(half) == NumberMul(half, half) IN square(NumberPowNat(a, k \div 2))

\* Math.pow(a, m) for an integer exponent m: a for m = 1 and 1 / a for
\* m = -1, as the engine returns them; for the other exponents a number
\* within a few units in the last place of the engine's.
NumberPow(a, m) ==
  IF m >= 0 THEN NumberPowNat(a, m) ELSE NumberDiv(Number(1), NumberPowNat(a, -m))

Point(x, y) == [x |-> x, y |-> y]

(***************************************************************************)
(* Pixel buffers: ImageData.data, RGBA, 4 bytes per pixel                  *)
(***************************************************************************)
Foreground == <<255, 255, 255, 255>>

Background == <<0, 0, 0, 255>>

Grey == <<128, 128, 128, 255>>

\* The value of reading past either end of a typed array.
Undefined == -1

\* An image buffer of the given dimensions; pixels is the row-major sequence of
\* its RGBA quadruples.
ImageData(width, height, pixels) == [width |-> width, height |-> height, pixels |-> pixels]

\* mask[index]: byte number index of the buffer, undefined outside it.
ByteAt(mask, index) ==
  IF index >= 0 /\ index < 4 * Len(mask.pixels)
  THEN mask.pixels[(index \div 4) + 1][(index % 4) + 1]
  ELSE Undefined

(***************************************************************************)
(* Lines                                                                   *)
(***************************************************************************)
FluidLine(startPoint, endPoint) ==
  [type |-> "FluidLine", startPoint |-> startPoint, endPoint |-> endPoint]

PixelLine(startPoint, endPoint) ==
  [type |-> "PixelLine", startPoint |-> startPoint, endPoint |-> endPoint]

(***************************************************************************)
(* The pixel walk of the forward propagation, one source line              *)
(***************************************************************************)
\* A direction that steps the axis with the greater absolute delta by half
\* a pixel.
SlopeHalfSteps(deltaX, deltaY) ==
  IF RGt(RAbs(deltaX), RAbs(deltaY))
  THEN IF RGt(deltaX, R(0)) THEN <<Rat(1, 2), RDiv(deltaY, RMul(R(2), RAbs(deltaX)))>>
                            ELSE <<Rat(-1, 2), RDiv(deltaY, RMul(R(2), RAbs(deltaX)))>>
  ELSE IF RGt(deltaY, R(0)) THEN <<RDiv(deltaX, RMul(R(2), RAbs(deltaY))), Rat(1, 2)>>
                            ELSE <<RDiv(deltaX, RMul(R(2), RAbs(deltaY))), Rat(-1, 2)>>

\* A direction that always steps the horizontal axis by +1 or -1, whichever
\* delta is the greater.
SlopeAlongX(deltaX, deltaY) ==
  IF RGt(deltaX, R(0)) THEN <<R(1), RDiv(deltaY, RAbs(deltaX))>>
                       ELSE <<R(-1), RDiv(deltaY, RAbs(deltaX))>>

\* The direction of the walk: the axis with the greater absolute delta is
\* stepped by +1 or -1, the other one by delta_minor / |delta_major|.
Slope(deltaX, deltaY) ==
  IF RGt(RAbs(deltaX), RAbs(deltaY))
  THEN IF RGt(deltaX, R(0)) THEN <<R(1), RDiv(deltaY, RAbs(deltaX))>>
                            ELSE <<R(-1), RDiv(deltaY, RAbs(deltaX))>>
  ELSE IF RGt(deltaY, R(0)) THEN <<RDiv(deltaX, RAbs(deltaY)), R(1)>>
                            ELSE <<RDiv(deltaX, RAbs(deltaY)), R(-1)>>

\* The index of the first byte of the pixel the walk stands on, as the walk
\* computes it (rows is the height of the mask canvas).
PixelIndex(roundedRow, roundedCol, rows) == roundedCol[1] * rows * 4 + roundedRow[1] * 4

IsForeground(mask, index) ==
  /\ ByteAt(mask, index) = 255
  /\ ByteAt(mask, index + 1) = 255
  /\ ByteAt(mask, index + 2) = 255
  /\ ByteAt(mask, index + 3) = 255

IsBackground(mask, index) ==
  /\ ByteAt(mask, index) = 0
  /\ ByteAt(mask, index + 1) = 0
  /\ ByteAt(mask, index + 2) = 0
  /\ ByteAt(mask, index + 3) = 255

\* The locals of the walk before its loop.  visited records, for every
\* iteration so far, the rounded position and the index that was read.
\* A walk whose tentative end points start at the start of the line.
WalkInitAtLineStart(line) ==
  LET deltaX == RSub(line.endPoint.x, line.startPoint.x)
      deltaY == RSub(line.endPoint.y, line.startPoint.y)
  IN  [line |-> line, deltaX |-> deltaX, deltaY |-> deltaY, slope |-> Slope(deltaX, deltaY),
       row |-> line.startPoint.x, col |-> line.startPoint.y,
       roundedRow |-> MathRound(line.startPoint.x), roundedCol |-> MathRound(line.startPoint.y),
       maskStartX |-> line.startPoint.x, maskStartY |-> line.startPoint.y,
       maskEndX |-> line.startPoint.x, maskEndY |-> line.startPoint.y,
       start |-> FALSE, pc |-> "loop", visited |-> <<>>]

WalkInit(line) ==
  LET deltaX == RSub(line.endPoint.x, line.startPoint.x)
      deltaY == RSub(line.endPoint.y, line.startPoint.y)
  IN  [line |-> line, deltaX |-> deltaX, deltaY |-> deltaY, slope |-> Slope(deltaX, deltaY),
       row |-> line.startPoint.x, col |-> line.startPoint.y,
       roundedRow |-> MathRound(line.startPoint.x), roundedCol |-> MathRound(line.startPoint.y),
       maskStartX |-> R(0), maskStartY |-> R(0), maskEndX |-> R(0), maskEndY |-> R(0),
       start |-> FALSE, pc |-> "loop", visited |-> <<>>]

\* The condition of the while loop.
WalkCondition(w) ==
  /\ IF RGt(w.deltaX, R(0)) THEN RLe(w.row, w.line.endPoint.x) ELSE RGe(w.row, w.line.endPoint.x)
  /\ IF RGt(w.deltaY, R(0)) THEN RLe(w.col, w.line.endPoint.y) ELSE RGe(w.col, w.line.endPoint.y)

\* A walk that breaks over any background pixel, started or not.
WalkBreaksUnstarted(mask, index, start) == IsBackground(mask, index)

\* Over background with the line already started: the walk breaks.
WalkBreaks(mask, index, start) == IsBackground(mask, index) /\ start = TRUE

\* One iteration of the loop body.
WalkBody(w, mask, rows) ==
  LET index == PixelIndex(w.roundedRow, w.roundedCol, rows)
      seen  == Append(w.visited, [x |-> w.roundedRow[1], y |-> w.roundedCol[1], index |-> index])
      next  == [w EXCEPT !.row = RAdd(w.row, w.slope[1]), !.col = RAdd(w.col, w.slope[2]),
                         !.roundedRow = MathRound(RAdd(w.row, w.slope[1])),
                         !.roundedCol = MathRound(RAdd(w.col, w.slope[2])),
                         !.visited = seen]
  IN  IF IsForeground(mask, index)
      THEN IF w.start = FALSE
           THEN [next EXCEPT !.start = TRUE,
                             !.maskStartY = w.col, !.maskStartX = w.row,
                             !.maskEndY = w.col, !.maskEndX = w.row]
           ELSE [next EXCEPT !.maskEndY = w.col, !.maskEndX = w.row]
      ELSE IF WalkBreaks(mask, index, w.start)
           THEN [w EXCEPT !.pc = "done", !.visited = seen]
           ELSE next

\* One step of the walk: an iteration, or the exit of the loop.
WalkStep(w, mask, rows) ==
  IF WalkCondition(w) THEN WalkBody(w, mask, rows) ELSE [w EXCEPT !.pc = "done"]

RECURSIVE WalkRun(_, _, _)
WalkRun(w, mask, rows) ==
  IF w.pc = "done" THEN w ELSE WalkRun(WalkStep(w, mask, rows), mask, rows)

\* The pixel line the walk adds to the mask.
WalkResult(w) ==
  PixelLine(Point(w.maskStartX, w.maskStartY), Point(w.maskEndX, w.maskEndY))

PropagatedLine(line, mask, rows) == WalkResult(WalkRun(WalkInit(line), mask, rows))

(***************************************************************************)
(* Line objects: what the constructors of AbstractLine and PixelLine       *)
(* compute and keep, and the setters of AbstractLine.                      *)
(***************************************************************************)
computeLength(startPoint, endPoint) ==
  MathSqrt(RAdd(MathPow(RSub(endPoint.x, startPoint.x), 2),
                MathPow(RSub(endPoint.y, startPoint.y), 2)))

\* The condition of the loop of computePixelCoordinates.
PixelCondition(w, endPoint, slope) ==
  /\ IF RGt(slope[1], R(0)) THEN RLe(w.x, endPoint.x) ELSE RGe(w.x, endPoint.x)
  /\ IF RGt(slope[2], R(0)) THEN RLe(w.y, endPoint.y) ELSE RGe(w.y, endPoint.y)

\* One iteration of the loop: the rounded position is pushed when it is not
\* the last one pushed, and the position moves on by the slope.
PixelBody(w, slope) ==
  LET pushed == MathRound(w.x) # w.lastX \/ MathRound(w.y) # w.lastY
  IN  [x      |-> RAdd(w.x, slope[1]),
       y      |-> RAdd(w.y, slope[2]),
       lastX  |-> IF pushed THEN MathRound(w.x) ELSE w.lastX,
       lastY  |-> IF pushed THEN MathRound(w.y) ELSE w.lastY,
       points |-> IF pushed THEN Append(w.points, Point(MathRound(w.x), MathRound(w.y)))
                  ELSE w.points]

RECURSIVE PixelLoop(_, _, _)
PixelLoop(w, endPoint, slope) ==
  IF PixelCondition(w, endPoint, slope) THEN PixelLoop(PixelBody(w, slope), endPoint, slope)
  ELSE w

\* A walk that pushes the rounded end point once its loop is over.
computePixelCoordinatesClosed(startPoint, endPoint, slope) ==
  Append(PixelLoop([x |-> startPoint.x, y |-> startPoint.y,
                    lastX |-> RSub(MathRound(startPoint.x), R(1)),
                    lastY |-> RSub(MathRound(startPoint.y), R(1)),
                    points |-> <<>>], endPoint, slope).points,
         Point(MathRound(endPoint.x), MathRound(endPoint.y)))

\* computePixelCoordinates(): the points of the line, from its start.
computePixelCoordinates(startPoint, endPoint, slope) ==
  PixelLoop([x |-> startPoint.x, y |-> startPoint.y,
             lastX |-> RSub(MathRound(startPoint.x), R(1)),
             lastY |-> RSub(MathRound(startPoint.y), R(1)),
             points |-> <<>>], endPoint, slope).points

\* new FluidLine(startPoint, endPoint): the constructor of AbstractLine.
NewFluidLine(startPoint, endPoint) ==
  [type |-> "FluidLine", startPoint |-> startPoint, endPoint |-> endPoint,
   length |-> computeLength(startPoint, endPoint)]

\* new PixelLine(startPoint, endPoint).
NewPixelLine(startPoint, endPoint) ==
  LET slope == Slope(RSub(endPoint.x, startPoint.x), RSub(endPoint.y, startPoint.y))
  IN  [type |-> "PixelLine", startPoint |-> startPoint, endPoint |-> endPoint,
       length |-> computeLength(startPoint, endPoint),
       slope |-> slope,
       points |-> computePixelCoordinates(startPoint, endPoint, slope)]

(***************************************************************************)
(* The tracked transform of a Canvas: a uniform scale a and a translation  *)
(* (e, f); the program never rotates or shears.                            *)
(***************************************************************************)
IdentityMatrix == [a |-> R(1), e |-> R(0), f |-> R(0)]

\* ctx.translate(dx, dy): xform = xform.translate(dx, dy)
Translate(xform, dx, dy) ==
  [xform EXCEPT !.e = RAdd(xform.e, RMul(xform.a, dx)), !.f = RAdd(xform.f, RMul(xform.a, dy))]

\* ctx.scale(factor, factor): xform = xform.scale(factor, factor)
Scale(xform, factor) == [xform EXCEPT !.a = RMul(xform.a, factor)]

\* ctx.transformedPoint(p): p mapped through the inverse of xform.
TransformedPoint(xform, p) ==
  Point(RDiv(RSub(p.x, xform.e), xform.a), RDiv(RSub(p.y, xform.f), xform.a))

(***************************************************************************)
(* Canvas: a record of its React state (height, width, lines, pixelLines,  *)
(* fluidLines, editMode) and of its instance fields.  A null reference is  *)
(* the empty sequence, a non-null one a sequence of one element.           *)
(***************************************************************************)
maxLines == 3

DefaultSize == 512

scaleFactor == Rat(11, 10)

maxZoomOut == Rat(1, 5)

Null == <<>>

\* undefined, where a number may stand.
NoNumber == <<>>

defaultBrightness == 100

maxBrightness == 200

defaultContrast == 100

maxContrast == 1000

\* The filter "brightness(b%)contrast(c%)" of the rendering context, as what
\* it does to what is drawn under it.
Filter(brightness, contrast) == <<brightness, contrast>>

\* The filter "none" of a fresh context: it renders as brightness(100%)
\* and contrast(100%) do, and stands as them.
NoFilter == Filter(100, 100)

\* What a canvas shows: the filter its background was drawn under, the lines
\* drawn over it and the filter they were drawn under.
Shown(background, linesFilter, fluidLines, pixelLines) ==
  [background |-> background, linesFilter |-> linesFilter,
   fluidLines |-> fluidLines, pixelLines |-> pixelLines]

\* The Canvas after construction and componentDidMount, which saves the
\* identity as the baseline transform and the filter of the fresh context
\* with it.
NewCanvas ==
  [height |-> DefaultSize, width |-> DefaultSize,
   lines |-> <<>>, pixelLines |-> <<>>, fluidLines |-> <<>>, editMode |-> TRUE,
   mouseIsDown |-> FALSE, dragStart |-> Null, dragged |-> TRUE, zoomFactor |-> R(1),
   startPoint |-> Point(R(0), R(0)), endPoint |-> Point(R(0), R(0)),
   lastObjectType |-> "null",
   xform |-> IdentityMatrix, savedTransforms |-> <<IdentityMatrix>>,
   painted |-> IdentityMatrix,
   brightness |-> defaultBrightness, contrast |-> defaultContrast,
   filter |-> NoFilter, savedFilters |-> <<NoFilter>>,
   shown |-> Shown(NoFilter, NoFilter, <<>>, <<>>),
   originalImageData |-> Null]

\* redraw(): the canvas is cleared and painted anew under the transform of
\* the moment; painted keeps the transform its content was painted under.
\* The background image is drawn under the filter the context has at that
\* moment, then the filter is set from brightness and contrast, then the
\* lines are drawn.
redraw(c) ==
  LET filter == Filter(c.brightness, c.contrast)
  IN  [c EXCEPT !.painted = c.xform,
                !.filter = filter,
                !.shown = Shown(c.filter, filter, c.fluidLines, c.pixelLines)]

\* set brightness(brightness)
setBrightness(c, brightness) == redraw([c EXCEPT !.brightness = brightness])

\* set contrast(contrast)
setContrast(c, contrast) == redraw([c EXCEPT !.contrast = contrast])

\* setFilters(brightness, contrast): both setters, then one more redraw.
setFilters(c, brightness, contrast) ==
  redraw(setBrightness(setContrast(c, contrast), brightness))

\* A handler runs on a context h: the canvas c, whose React state stays the
\* committed one until the handler returns, and the queue q of the state
\* updates the handler has passed to setState so far.
Handler(c) == [c |-> c, q |-> <<>>]

SetState(h, update) == [h EXCEPT !.q = Append(h.q, update)]

DropLast(seq) == SubSeq(seq, 1, Len(seq) - 1)

\* One queued update applied to the state before it.
ApplyUpdate(prevState, u) ==
  CASE u.kind = "addFluidLine" ->
         [prevState EXCEPT !.lines = Append(prevState.lines, u.line),
                           !.fluidLines = Append(prevState.fluidLines, u.line),
                           !.editMode = u.editMode /\ Len(prevState.lines) + 1 < maxLines]
    [] u.kind = "addPixelLine" ->
         [prevState EXCEPT !.lines = Append(prevState.lines, u.line),
                           !.pixelLines = Append(prevState.pixelLines, u.line),
                           !.editMode = u.editMode /\ Len(prevState.lines) + 1 < maxLines]
    [] u.kind = "editMode" ->
         [prevState EXCEPT !.editMode = u.editMode]
    [] u.kind = "undoFluidLine" ->
         [prevState EXCEPT !.lines = DropLast(prevState.lines),
                           !.fluidLines = DropLast(prevState.fluidLines),
                           !.editMode = Len(prevState.fluidLines) - 1 < maxLines]
    [] u.kind = "undoPixelLine" ->
         [prevState EXCEPT !.lines = DropLast(prevState.lines),
                           !.pixelLines = DropLast(prevState.pixelLines),
                           !.editMode = Len(prevState.pixelLines) - 1 < maxLines]
    [] u.kind = "undoAll" ->
         [prevState EXCEPT !.lines = <<>>, !.fluidLines = <<>>, !.pixelLines = <<>>,
                           !.editMode = TRUE]
    [] u.kind = "size" ->
         [prevState EXCEPT !.height = u.height, !.width = u.width]

RECURSIVE ApplyUpdates(_, _)
ApplyUpdates(state, q) ==
  IF q = <<>> THEN state ELSE ApplyUpdates(ApplyUpdate(state, Head(q)), Tail(q))

\* The canvas once React has applied the updates the handler queued; the
\* render that follows an update ends in componentDidUpdate, which redraws.
Commit(h) == IF h.q = <<>> THEN h.c ELSE redraw(ApplyUpdates(h.c, h.q))

\* A guard that looks at the fluid lines only.
CanAddFluidLineIgnoringPixelLines(c) == Len(c.fluidLines) < maxLines

\* addFluidLine guard: room among the fluid lines and no pixel lines.
CanAddFluidLine(c) == Len(c.fluidLines) < maxLines /\ Len(c.pixelLines) = 0

\* addPixelLine guard: room among the pixel lines and no fluid lines.
CanAddPixelLine(c) == Len(c.pixelLines) < maxLines /\ Len(c.fluidLines) = 0

addFluidLine(h, line) ==
  IF CanAddFluidLine(h.c)
  THEN SetState([h EXCEPT !.c.lastObjectType = "FluidLine"],
                [kind |-> "addFluidLine", line |-> line, editMode |-> h.c.editMode])
  ELSE h

\* An addPixelLine that does not record the variant it added.
addPixelLineUnrecorded(h, pixelLine) ==
  IF CanAddPixelLine(h.c)
  THEN SetState(h, [kind |-> "addPixelLine", line |-> pixelLine, editMode |-> h.c.editMode])
  ELSE h

addPixelLine(h, pixelLine) ==
  IF CanAddPixelLine(h.c)
  THEN SetState([h EXCEPT !.c.lastObjectType = "PixelLine"],
                [kind |-> "addPixelLine", line |-> pixelLine, editMode |-> h.c.editMode])
  ELSE h

\* The square of the length of a line; computeLength() is its square root.
LengthSquared(line) ==
  RAdd(RMul(RSub(line.endPoint.x, line.startPoint.x), RSub(line.endPoint.x, line.startPoint.x)),
       RMul(RSub(line.endPoint.y, line.startPoint.y), RSub(line.endPoint.y, line.startPoint.y)))

\* line.length: the length computeLength() returned to the constructor of
\* the line (no setter is called on a line a canvas holds).
LineLength(line) == MathSqrt(LengthSquared(line))

\* numbers.sort((a, b) => a - b): the numbers in ascending order.
SortAscending(numbers) ==
  LET values == {numbers[i] : i \in 1 .. Len(numbers)}
      count(seq, v) == Cardinality({i \in 1 .. Len(numbers) : seq[i] = v})
  IN  CHOOSE sorted \in [1 .. Len(numbers) -> values] :
        /\ \A i \in 1 .. Len(numbers) - 1 : RLe(sorted[i], sorted[i + 1])
        /\ \A v \in values : count(sorted, v) = count(numbers, v)

\* The lengths of the lines of a canvas, ascending.
SortedLengths(c) == SortAscending([i \in 1 .. Len(c.lines) |-> LineLength(c.lines[i])])

\* A diameter percentage taken from the two greatest lengths.
computeDiameterStenosisPercentageOfGreatest(c) ==
  IF Len(c.lines) # maxLines THEN NoNumber
  ELSE LET lengthsArray == SortedLengths(c)
       IN  RMul(RDiv(RMul(R(2), lengthsArray[2]), RAdd(lengthsArray[2], lengthsArray[3])), R(100))

\* A diameter percentage that is computed as soon as the canvas holds a line.
computeDiameterStenosisPercentageOfAnyLines(c) ==
  IF Len(c.lines) = 0 THEN NoNumber
  ELSE LET lengthsArray == SortedLengths(c)
       IN  RMul(RDiv(RMul(R(2), lengthsArray[1]),
                     RAdd(lengthsArray[Len(c.lines)], lengthsArray[Len(c.lines)])), R(100))

computeDiameterStenosisPercentage(c) ==
  IF Len(c.lines) # maxLines THEN NoNumber
  ELSE LET lengthsArray == SortedLengths(c)
       IN  RMul(RDiv(RMul(R(2), lengthsArray[1]), RAdd(lengthsArray[2], lengthsArray[3])), R(100))

\* An area percentage taken from the halved lengths, not squared.
computeAreaStenosisPercentageOfRadii(c) ==
  IF Len(c.lines) # maxLines THEN NoNumber
  ELSE LET lengthsArray == SortedLengths(c)
           radius(i) == MathPow(RMul(Rat(1, 2), lengthsArray[i]), 1)
       IN  RMul(RDiv(RMul(RMul(R(2), MathPI), radius(1)),
                     RAdd(RMul(MathPI, radius(2)), RMul(MathPI, radius(3)))),
                R(100))

computeAreaStenosisPercentage(c) ==
  IF Len(c.lines) # maxLines THEN NoNumber
  ELSE LET lengthsArray == SortedLengths(c)
           square(i) == MathPow(RMul(Rat(1, 2), lengthsArray[i]), 2)
       IN  RMul(RDiv(RMul(RMul(R(2), MathPI), square(1)),
                     RAdd(RMul(MathPI, square(2)), RMul(MathPI, square(3)))),
                R(100))

\* ctx.save(): a copy of xform is pushed, and the context pushes its
\* drawing state, of which the filter is a part.
Save(c) ==
  [c EXCEPT !.savedTransforms = Append(c.savedTransforms, c.xform),
            !.savedFilters = Append(c.savedFilters, c.filter)]

\* ctx.restore(): xform becomes the matrix popped off the stack, and the
\* filter the one of the drawing state the context pops.
Restore(c) ==
  [c EXCEPT !.xform = c.savedTransforms[Len(c.savedTransforms)],
            !.savedTransforms = DropLast(c.savedTransforms),
            !.filter = c.savedFilters[Len(c.savedFilters)],
            !.savedFilters = DropLast(c.savedFilters)]

\* An undoAll that redraws before it restores the transform.
undoAllRedrawFirst(h) ==
  LET h1 == SetState([h EXCEPT !.c.lastObjectType = "null"], [kind |-> "undoAll"])
  IN  [h1 EXCEPT !.c = Save(Restore(redraw(h1.c)))]

undoAll(h) ==
  LET h1 == SetState([h EXCEPT !.c.lastObjectType = "null"], [kind |-> "undoAll"])
  IN  [h1 EXCEPT !.c = redraw(Save(Restore(h1.c)))]

\* An undo that takes the last fluid line whatever variant was added last.
undoLastOfFluidLines(h) == SetState(h, [kind |-> "undoFluidLine"])

undoLast(h) ==
  IF h.c.lastObjectType = "FluidLine" THEN SetState(h, [kind |-> "undoFluidLine"])
  ELSE IF h.c.lastObjectType = "PixelLine" THEN SetState(h, [kind |-> "undoPixelLine"])
  ELSE h

toggleEdit(h) ==
  SetState(h, [kind |-> "editMode",
               editMode |-> ~h.c.editMode /\ Len(h.c.fluidLines) < maxLines])

\* A zoom that scales the view about its origin, not about the pointer.
zoomAboutOrigin(c, magnitude) ==
  LET power  == MathPow(scaleFactor, magnitude)
      factor == IF RLt(RMul(c.zoomFactor, power), maxZoomOut)
                THEN RDiv(maxZoomOut, c.zoomFactor) ELSE power
  IN  redraw([c EXCEPT !.zoomFactor = RMul(c.zoomFactor, factor),
                       !.xform = Scale(c.xform, factor)])

\* zoom(magnitude): scale about the logical position of the pointer, keeping
\* the cumulative zoom factor at or above maxZoomOut.
zoom(c, magnitude) ==
  LET pt      == TransformedPoint(c.xform, c.endPoint)
      power   == MathPow(scaleFactor, magnitude)
      factor  == IF RLt(RMul(c.zoomFactor, power), maxZoomOut)
                 THEN RDiv(maxZoomOut, c.zoomFactor) ELSE power
      moved   == Translate(c.xform, pt.x, pt.y)
      scaled  == Scale(moved, factor)
  IN  redraw([c EXCEPT !.zoomFactor = RMul(c.zoomFactor, factor),
                       !.xform = Translate(scaled, RNeg(pt.x), RNeg(pt.y))])

\* Canvas.scaleFactor and Canvas.maxZoomOut as the engine holds them.
scaleFactorNumber == NumberOf(scaleFactor)

maxZoomOutNumber == NumberOf(maxZoomOut)

\* zoom(magnitude), its arithmetic on zoomFactor as the engine computes it:
\* zoomFactor after the call, in binary64, given power, the value of
\* Math.pow(Canvas.scaleFactor, magnitude).
zoomFactorAfter(zoomFactor, power) ==
  LET factor == IF NumberLess(NumberMul(zoomFactor, power), maxZoomOutNumber)
                THEN NumberDiv(maxZoomOutNumber, zoomFactor) ELSE power
  IN  NumberMul(zoomFactor, factor)

handleMouseDown(h, position) ==
  LET c == [h.c EXCEPT !.startPoint = position]
  IN  IF c.editMode
      THEN [h EXCEPT !.c = [c EXCEPT !.mouseIsDown = TRUE]]
      ELSE [h EXCEPT !.c = [c EXCEPT !.dragStart = <<TransformedPoint(c.xform, position)>>,
                                     !.dragged = FALSE]]

handleMouseLeave(h) ==
  IF h.c.editMode /\ h.c.mouseIsDown
  THEN LET h1 == [h EXCEPT !.c.mouseIsDown = FALSE]
           h2 == addFluidLine(h1, FluidLine(TransformedPoint(h.c.xform, h.c.startPoint),
                                            TransformedPoint(h.c.xform, h.c.endPoint)))
       IN  SetState(h2, [kind |-> "editMode",
                         editMode |-> h.c.editMode /\ Len(h.c.fluidLines) < maxLines])
  ELSE [h EXCEPT !.c.dragged = TRUE, !.c.dragStart = Null]

handleMouseUp(h, position, shiftKey) ==
  LET c == [h.c EXCEPT !.endPoint = position]
  IN  IF c.editMode
      THEN IF c.mouseIsDown
           THEN addFluidLine([h EXCEPT !.c = [c EXCEPT !.mouseIsDown = FALSE]],
                             FluidLine(TransformedPoint(c.xform, c.startPoint),
                                       TransformedPoint(c.xform, position)))
           ELSE [h EXCEPT !.c = c]
      ELSE LET zoomed == IF c.dragged THEN zoom(c, IF shiftKey THEN -1 ELSE 1) ELSE c
           IN  [h EXCEPT !.c = [zoomed EXCEPT !.dragStart = Null]]

handleMouseMove(h, position) ==
  LET c == [h.c EXCEPT !.endPoint = position]
  IN  IF c.editMode
      THEN [h EXCEPT !.c = IF c.mouseIsDown THEN redraw(c) ELSE c]
      ELSE IF c.dragStart # Null
           THEN LET pt == TransformedPoint(c.xform, position)
                IN  [h EXCEPT !.c = redraw([c EXCEPT !.xform =
                       Translate(c.xform, RSub(pt.x, c.dragStart[1].x), RSub(pt.y, c.dragStart[1].y))])]
           ELSE [h EXCEPT !.c = c]

\* A getDownloadURL that paints under the transform of the view.
getDownloadURLUnderView(c) ==
  IF c.originalImageData = Null
  THEN [c |-> c, result |-> "TypeError"]
  ELSE [c |-> [c EXCEPT !.painted = c.xform,
                        !.shown = Shown(NoFilter, c.filter, c.fluidLines, c.pixelLines)],
        result |-> "url"]

\* A getDownloadURL that restores the transform and does not save it again.
getDownloadURLWithoutSave(c) ==
  LET reset == Restore(c)
  IN  IF c.originalImageData = Null
      THEN [c |-> reset, result |-> "TypeError"]
      ELSE [c |-> [reset EXCEPT !.painted = reset.xform,
                                !.shown = Shown(NoFilter, reset.filter,
                                                reset.fluidLines, reset.pixelLines)],
            result |-> "url"]

\* getDownloadURL(): the transform is put back to the saved baseline, the
\* canvas is cleared and the captured buffer is put on it.  putImageData
\* throws a TypeError when it is handed null instead of an ImageData.
getDownloadURL(c) ==
  LET reset == Save(Restore(c))
  IN  IF c.originalImageData = Null
      THEN [c |-> reset, result |-> "TypeError"]
      ELSE [c |-> [reset EXCEPT !.painted = reset.xform,
                                !.shown = Shown(NoFilter, reset.filter,
                                                reset.fluidLines, reset.pixelLines)],
            result |-> "url"]

\* The wheel listener: delta is -deltaY / 40.
handleScroll(h, delta) == IF delta # 0 THEN [h EXCEPT !.c = zoom(h.c, delta)] ELSE h

\* backgroundImage.onload: the canvas takes the dimensions of the image and
\* the promise that follows captures its pixel buffer.
onload(h, data) ==
  SetState([h EXCEPT !.c.originalImageData = <<data>>],
           [kind |-> "size", height |-> data.height, width |-> data.width])

(***************************************************************************)
(* Frame: the image canvas and the mask canvas, and the propagation of     *)
(* lines between them.  Both handlers run inside one click, so the updates *)
(* they queue are applied when they return.                                *)
(***************************************************************************)
RECURSIVE AddPropagatedLinesReversed(_, _, _, _)
\* Pixel lines added from the last source line to the first.
AddPropagatedLinesReversed(h, lines, mask, rows) ==
  IF lines = <<>> THEN h
  ELSE AddPropagatedLinesReversed(addPixelLine(h, PropagatedLine(lines[Len(lines)], mask, rows)),
                                  SubSeq(lines, 1, Len(lines) - 1), mask, rows)

RECURSIVE AddPropagatedLines(_, _, _, _)
AddPropagatedLines(h, lines, mask, rows) ==
  IF lines = <<>> THEN h
  ELSE AddPropagatedLines(addPixelLine(h, PropagatedLine(Head(lines), mask, rows)),
                          Tail(lines), mask, rows)

\* Guards that do not look at the lines of the mask.
CanPropagateToMaskIgnoringMaskLines(imageCanvas, maskCanvas) ==
  /\ ~(Len(imageCanvas.lines) # maxLines)
  /\ maskCanvas.originalImageData # Null

\* The guards of propagateLinesToMask: the image holds exactly maxLines
\* lines, the mask holds none and its pixel buffer has been captured.
CanPropagateToMask(imageCanvas, maskCanvas) ==
  /\ ~(Len(imageCanvas.lines) # maxLines \/ Len(maskCanvas.lines) # 0)
  /\ maskCanvas.originalImageData # Null

\* A propagation to the mask that clears the mask before it looks for the
\* pixel buffer.
propagateLinesToMaskUndoFirst(f) ==
  IF ~(Len(f.imageCanvas.lines) # maxLines \/ Len(f.maskCanvas.lines) # 0)
  THEN IF f.maskCanvas.originalImageData = Null
       THEN [f EXCEPT !.maskCanvas = Commit(undoAll(Handler(f.maskCanvas)))]
       ELSE [f EXCEPT !.maskCanvas =
               Commit(AddPropagatedLines(undoAll(Handler(f.maskCanvas)), f.imageCanvas.lines,
                                         f.maskCanvas.originalImageData[1], f.maskCanvas.height))]
  ELSE f

propagateLinesToMask(f) ==
  IF CanPropagateToMask(f.imageCanvas, f.maskCanvas)
  THEN LET rows == f.maskCanvas.height
           mask == f.maskCanvas.originalImageData[1]
       IN  [f EXCEPT !.maskCanvas =
              Commit(AddPropagatedLines(undoAll(Handler(f.maskCanvas)), f.imageCanvas.lines, mask, rows))]
  ELSE f

RECURSIVE AddCopiedLinesReversed(_, _)
\* A copy that adds each line from its end to its start.
AddCopiedLinesReversed(h, lines) ==
  IF lines = <<>> THEN h
  ELSE AddCopiedLinesReversed(addFluidLine(h, FluidLine(Head(lines).endPoint, Head(lines).startPoint)),
                              Tail(lines))

RECURSIVE AddCopiedLines(_, _)
AddCopiedLines(h, lines) ==
  IF lines = <<>> THEN h
  ELSE AddCopiedLines(addFluidLine(h, FluidLine(Head(lines).startPoint, Head(lines).endPoint)),
                      Tail(lines))

\* The guard of propagateLinesToImage: the mask holds exactly maxLines lines.
CanPropagateToImage(imageCanvas, maskCanvas) == ~(Len(maskCanvas.lines) # maxLines)

\* A propagation to the image that does not clear the image first.
propagateLinesToImageWithoutUndoAll(f) ==
  IF CanPropagateToImage(f.imageCanvas, f.maskCanvas)
  THEN [f EXCEPT !.imageCanvas =
          Commit(AddCopiedLines(Handler(f.imageCanvas), f.maskCanvas.lines))]
  ELSE f

\* A propagation to the image that clears the mask once its lines are copied.
propagateLinesToImageClearingMask(f) ==
  IF CanPropagateToImage(f.imageCanvas, f.maskCanvas)
  THEN [f EXCEPT !.imageCanvas =
          Commit(AddCopiedLines(undoAll(Handler(f.imageCanvas)), f.maskCanvas.lines)),
                 !.maskCanvas = Commit(undoAll(Handler(f.maskCanvas)))]
  ELSE f

propagateLinesToImage(f) ==
  IF CanPropagateToImage(f.imageCanvas, f.maskCanvas)
  THEN [f EXCEPT !.imageCanvas =
          Commit(AddCopiedLines(undoAll(Handler(f.imageCanvas)), f.maskCanvas.lines))]
  ELSE f

(***************************************************************************)
(* State                                                                   *)
(***************************************************************************)
VARIABLES
  frame,     \* the Frame: its imageCanvas and its maskCanvas
  pointer,   \* the canvas the mouse pointer is over, or "outside"
  walk,      \* the locals of one forward-propagation walk
  target,    \* the pixel buffer that walk reads
  zoomEvents,  \* the number of zoom calls made on the image canvas
  genericLine, \* a line object in the hands of a caller
  report       \* the stenosis percentages last computed, and the lines they are of

vars == <<frame, pointer, walk, target, zoomEvents, genericLine, report>>

(***************************************************************************)
(* The Frame and its two canvases under the operator's mouse.  The pointer *)
(* is over one canvas at most: a canvas receives mouse events while the    *)
(* pointer is over it, and the buttons of the page are clicked with the    *)
(* pointer outside both canvases, after the mouseleave of the canvas it    *)
(* was over.  In this specification the view of a canvas stays the initial *)
(* one: a pointer event is taken only if it leaves the transform as it is. *)
(***************************************************************************)
Canvases == {"imageCanvas", "maskCanvas"}

\* The pointer positions of mouse events, in device coordinates.
DownPositions == {Point(R(0), R(0))}

Positions == {Point(R(0), R(0)), Point(R(1), R(2))}

\* The decoded images: the mask is background with a foreground run from
\* pixel (1, 1) to pixel (1, 2); the image is grey.
MaskImage ==
  ImageData(3, 3, <<Background, Background, Background,
                    Background, Foreground, Background,
                    Background, Foreground, Background>>)

AngioImage == ImageData(3, 3, [i \in 1 .. 9 |-> Grey])

ImageOf(k) == IF k = "maskCanvas" THEN MaskImage ELSE AngioImage

NoWalk == [pc |-> "idle"]

NoTarget == ImageData(0, 0, <<>>)

NoLine == [type |-> "null"]

NoReport == [lines |-> <<>>, diameter |-> NoNumber, area |-> NoNumber]

Init ==
  /\ frame = [imageCanvas |-> NewCanvas, maskCanvas |-> NewCanvas]
  /\ pointer = "outside"
  /\ walk = NoWalk
  /\ target = NoTarget
  /\ zoomEvents = 0
  /\ genericLine = NoLine
  /\ report = NoReport

\* The handler context h has run on canvas k and React commits its updates.
Handled(k, h) ==
  /\ h.c.xform = frame[k].xform
  /\ frame' = [frame EXCEPT ![k] = Commit(h)]
  /\ UNCHANGED <<walk, target, zoomEvents, genericLine, report>>

Load(k) ==
  /\ frame[k].originalImageData = Null
  /\ Handled(k, onload(Handler(frame[k]), ImageOf(k)))
  /\ UNCHANGED pointer

MouseEnter(k) ==
  /\ pointer = "outside"
  /\ pointer' = k
  /\ UNCHANGED <<frame, walk, target, zoomEvents, genericLine, report>>

MouseDown(k) ==
  /\ pointer = k
  /\ \E position \in DownPositions : Handled(k, handleMouseDown(Handler(frame[k]), position))
  /\ UNCHANGED pointer

MouseMove(k) ==
  /\ pointer = k
  /\ \E position \in Positions : Handled(k, handleMouseMove(Handler(frame[k]), position))
  /\ UNCHANGED pointer

MouseUp(k) ==
  /\ pointer = k
  /\ \E position \in Positions, shiftKey \in BOOLEAN :
       Handled(k, handleMouseUp(Handler(frame[k]), position, shiftKey))
  /\ UNCHANGED pointer

MouseLeave(k) ==
  /\ pointer = k
  /\ Handled(k, handleMouseLeave(Handler(frame[k])))
  /\ pointer' = "outside"

ToggleEdit(k) ==
  /\ pointer = "outside"
  /\ Handled(k, toggleEdit(Handler(frame[k])))
  /\ UNCHANGED pointer

UndoLast(k) ==
  /\ pointer = "outside"
  /\ Handled(k, undoLast(Handler(frame[k])))
  /\ UNCHANGED pointer

UndoAll(k) ==
  /\ pointer = "outside"
  /\ Handled(k, undoAll(Handler(frame[k])))
  /\ UNCHANGED pointer

PropagateLinesToMask ==
  /\ pointer = "outside"
  /\ frame' = propagateLinesToMask(frame)
  /\ UNCHANGED <<pointer, walk, target, zoomEvents, genericLine, report>>

PropagateLinesToImage ==
  /\ pointer = "outside"
  /\ frame' = propagateLinesToImage(frame)
  /\ UNCHANGED <<pointer, walk, target, zoomEvents, genericLine, report>>

Next ==
  \/ \E k \in Canvases : Load(k)
  \/ \E k \in Canvases : MouseEnter(k)
  \/ \E k \in Canvases : MouseDown(k)
  \/ \E k \in Canvases : MouseMove(k)
  \/ \E k \in Canvases : MouseUp(k)
  \/ \E k \in Canvases : MouseLeave(k)
  \/ \E k \in Canvases : ToggleEdit(k)
  \/ \E k \in Canvases : UndoLast(k)
  \/ \E k \in Canvases : UndoAll(k)
  \/ PropagateLinesToMask
  \/ PropagateLinesToImage

Spec == Init /\ [][Next]_vars

(***************************************************************************)
(* One canvas with its view: besides drawing and the buttons, the operator *)
(* zooms (click and shift-click out of edit mode, wheel), pans (drag out   *)
(* of edit mode) and downloads.  The other canvas of the frame is left     *)
(* alone.                                                                  *)
(***************************************************************************)
MaxZoomSteps == 1

MaxPan == 1

MaxViewLines == 1

\* The zoom factors and scales within MaxZoomSteps steps of scaleFactor.
ZoomFactors == {MathPow(scaleFactor, n) : n \in -MaxZoomSteps .. MaxZoomSteps}

ViewScales == {MathPow(scaleFactor, n) : n \in -2 * MaxZoomSteps .. 2 * MaxZoomSteps}

\* The view of the canvas and the lines drawn in it lie within the bounds.
InView(c) ==
  /\ Len(c.lines) <= MaxViewLines
  /\ c.zoomFactor \in ZoomFactors
  /\ c.xform.a \in ViewScales
  /\ c.xform.e \in {R(n) : n \in -MaxPan .. MaxPan}
  /\ c.xform.f \in {R(n) : n \in -MaxPan .. MaxPan}

\* The canvas of the view and the magnitudes of its wheel events (-deltaY/40).
ViewCanvas == "imageCanvas"

\* Where the pointer is moved to and released in the view.
ViewPositions == {Point(R(0), R(0)), Point(R(1), R(0))}

Deltas == {-1, 1}

ViewHandled(h) ==
  /\ InView(Commit(h))
  /\ frame' = [frame EXCEPT ![ViewCanvas] = Commit(h)]
  /\ UNCHANGED <<walk, target, zoomEvents, genericLine, report>>

ViewLoad ==
  /\ frame[ViewCanvas].originalImageData = Null
  /\ ViewHandled(onload(Handler(frame[ViewCanvas]), ImageOf(ViewCanvas)))
  /\ UNCHANGED pointer

ViewMouseEnter == MouseEnter(ViewCanvas)

ViewMouseDown ==
  /\ pointer = ViewCanvas
  /\ \E position \in DownPositions :
       ViewHandled(handleMouseDown(Handler(frame[ViewCanvas]), position))
  /\ UNCHANGED pointer

ViewMouseMove ==
  /\ pointer = ViewCanvas
  /\ \E position \in ViewPositions :
       ViewHandled(handleMouseMove(Handler(frame[ViewCanvas]), position))
  /\ UNCHANGED pointer

ViewMouseUp ==
  /\ pointer = ViewCanvas
  /\ \E position \in ViewPositions, shiftKey \in BOOLEAN :
       ViewHandled(handleMouseUp(Handler(frame[ViewCanvas]), position, shiftKey))
  /\ UNCHANGED pointer

ViewMouseLeave ==
  /\ pointer = ViewCanvas
  /\ ViewHandled(handleMouseLeave(Handler(frame[ViewCanvas])))
  /\ pointer' = "outside"

ViewScroll ==
  /\ pointer = ViewCanvas
  /\ \E delta \in Deltas : ViewHandled(handleScroll(Handler(frame[ViewCanvas]), delta))
  /\ UNCHANGED pointer

ViewToggleEdit ==
  /\ pointer = "outside"
  /\ ViewHandled(toggleEdit(Handler(frame[ViewCanvas])))
  /\ UNCHANGED pointer

ViewUndoLast ==
  /\ pointer = "outside"
  /\ ViewHandled(undoLast(Handler(frame[ViewCanvas])))
  /\ UNCHANGED pointer

ViewUndoAll ==
  /\ pointer = "outside"
  /\ ViewHandled(undoAll(Handler(frame[ViewCanvas])))
  /\ UNCHANGED pointer

\* The download button; what putImageData throws leaves the handler.
ViewDownload ==
  /\ pointer = "outside"
  /\ frame' = [frame EXCEPT ![ViewCanvas] = getDownloadURL(frame[ViewCanvas]).c]
  /\ UNCHANGED <<pointer, walk, target, zoomEvents, genericLine, report>>

NextView ==
  \/ ViewLoad
  \/ ViewMouseEnter
  \/ ViewMouseDown
  \/ ViewMouseMove
  \/ ViewMouseUp
  \/ ViewMouseLeave
  \/ ViewScroll
  \/ ViewToggleEdit
  \/ ViewUndoLast
  \/ ViewUndoAll
  \/ ViewDownload

SpecView == Init /\ [][NextView]_vars

(***************************************************************************)
(* The zoom calls on one canvas, from its construction on, with zoomFactor *)
(* held as the engine holds it, in binary64.  A click out of edit mode     *)
(* calls zoom(1), a shift-click zoom(-1), and a wheel event of deltaY      *)
(* calls zoom(-deltaY / 40): the magnitudes are those of a click, of a     *)
(* shift-click, and of a wheel event far enough out to undershoot the      *)
(* minimum from every zoom factor that MaxZoomEvents calls can reach, so   *)
(* that its power enters the comparison of zoom and nothing else.          *)
(***************************************************************************)
MaxZoomEvents == 12

ZoomPowers ==
  (1 :> NumberPow(scaleFactorNumber, 1)) @@ (-1 :> NumberPow(scaleFactorNumber, -1))
    @@ (-30 :> NumberPow(scaleFactorNumber, -30))

ZoomMagnitudes == DOMAIN ZoomPowers

InitZoom ==
  /\ frame = [imageCanvas |-> [NewCanvas EXCEPT !.zoomFactor = Number(1)],
              maskCanvas  |-> NewCanvas]
  /\ pointer = ViewCanvas
  /\ walk = NoWalk
  /\ target = NoTarget
  /\ zoomEvents = 0
  /\ genericLine = NoLine
  /\ report = NoReport

Zoom ==
  /\ zoomEvents < MaxZoomEvents
  /\ \E magnitude \in ZoomMagnitudes :
       frame' = [frame EXCEPT ![ViewCanvas].zoomFactor = zoomFactorAfter(@, ZoomPowers[magnitude])]
  /\ zoomEvents' = zoomEvents + 1
  /\ UNCHANGED <<pointer, walk, target, genericLine, report>>

NextZoom == Zoom

SpecZoom == InitZoom /\ [][NextZoom]_vars

(***************************************************************************)
(* The stenosis percentages of a canvas.  Lines are added to the image     *)
(* canvas through its public methods, in any order, and taken back; the    *)
(* percentages are computed at any moment.  The lines start at the origin  *)
(* and have rational lengths: 4, 10, 10 and 0.                             *)
(***************************************************************************)
StenosisEnds == {Point(R(4), R(0)), Point(R(0), R(10)), Point(R(6), R(8)), Point(R(0), R(0))}

StenosisHandled(h) ==
  /\ frame' = [frame EXCEPT ![ViewCanvas] = Commit(h)]
  /\ UNCHANGED <<pointer, walk, target, zoomEvents, genericLine, report>>

StenosisAddFluidLine ==
  \E end \in StenosisEnds :
    StenosisHandled(addFluidLine(Handler(frame[ViewCanvas]), FluidLine(Point(R(0), R(0)), end)))

StenosisAddPixelLine ==
  \E end \in StenosisEnds :
    StenosisHandled(addPixelLine(Handler(frame[ViewCanvas]), PixelLine(Point(R(0), R(0)), end)))

StenosisUndoLast == StenosisHandled(undoLast(Handler(frame[ViewCanvas])))

StenosisUndoAll == StenosisHandled(undoAll(Handler(frame[ViewCanvas])))

ComputeStenosis ==
  /\ report' = [lines    |-> frame[ViewCanvas].lines,
                diameter |-> computeDiameterStenosisPercentage(frame[ViewCanvas]),
                area     |-> computeAreaStenosisPercentage(frame[ViewCanvas])]
  /\ UNCHANGED <<frame, pointer, walk, target, zoomEvents, genericLine>>

NextStenosis ==
  \/ StenosisAddFluidLine
  \/ StenosisAddPixelLine
  \/ StenosisUndoLast
  \/ StenosisUndoAll
  \/ ComputeStenosis

SpecStenosis == Init /\ [][NextStenosis]_vars

(***************************************************************************)
(* The filters of one canvas: brightness and contrast are set through the  *)
(* setters and through setFilters, the component is rendered again, lines  *)
(* are drawn and undone, and the image is downloaded.                      *)
(***************************************************************************)
Brightnesses == {defaultBrightness, maxBrightness}

Contrasts == {defaultContrast, maxContrast}

FilterEnds == {Point(R(4), R(0)), Point(R(0), R(10))}

FilterCalled(c) ==
  /\ frame' = [frame EXCEPT ![ViewCanvas] = c]
  /\ UNCHANGED <<pointer, walk, target, zoomEvents, genericLine, report>>

FilterLoad ==
  /\ frame[ViewCanvas].originalImageData = Null
  /\ FilterCalled(Commit(onload(Handler(frame[ViewCanvas]), ImageOf(ViewCanvas))))

FilterSetBrightness ==
  \E brightness \in Brightnesses :
    FilterCalled(setBrightness(frame[ViewCanvas], brightness))

FilterSetContrast ==
  \E contrast \in Contrasts :
    FilterCalled(setContrast(frame[ViewCanvas], contrast))

FilterSetFilters ==
  \E brightness \in Brightnesses, contrast \in Contrasts :
    FilterCalled(setFilters(frame[ViewCanvas], brightness, contrast))

\* React renders the component again, as it does when its parent is
\* rendered: componentDidUpdate redraws.
FilterComponentDidUpdate == FilterCalled(redraw(frame[ViewCanvas]))

FilterAddFluidLine ==
  \E end \in FilterEnds :
    FilterCalled(Commit(addFluidLine(Handler(frame[ViewCanvas]),
                                     FluidLine(Point(R(0), R(0)), end))))

FilterUndoAll == FilterCalled(Commit(undoAll(Handler(frame[ViewCanvas]))))

FilterDownload == FilterCalled(getDownloadURL(frame[ViewCanvas]).c)

NextFilter ==
  \/ FilterLoad
  \/ FilterSetBrightness
  \/ FilterSetContrast
  \/ FilterSetFilters
  \/ FilterComponentDidUpdate
  \/ FilterAddFluidLine
  \/ FilterUndoAll
  \/ FilterDownload

SpecFilter == Init /\ [][NextFilter]_vars

(***************************************************************************)
(* A line object in the hands of a caller: it is constructed, as a         *)
(* FluidLine or as a PixelLine, and its setters are called in any order.   *)
(***************************************************************************)
\* The greatest coordinate of a sample point.
MaxLineCoord == 5

LineCoords == {R(0), R(2), R(MaxLineCoord), Rat(3, 2)}

LinePoints == {Point(x, y) : x \in LineCoords, y \in LineCoords}

ConstructFluidLine ==
  /\ genericLine = NoLine
  /\ \E startPoint \in LinePoints, endPoint \in LinePoints :
       genericLine' = NewFluidLine(startPoint, endPoint)
  /\ UNCHANGED <<frame, pointer, walk, target, zoomEvents, report>>

ConstructPixelLine ==
  /\ genericLine = NoLine
  /\ \E startPoint \in LinePoints, endPoint \in LinePoints :
       genericLine' = NewPixelLine(startPoint, endPoint)
  /\ UNCHANGED <<frame, pointer, walk, target, zoomEvents, report>>

\* The object after a call of one of its setters.
LineSet(line) ==
  /\ genericLine # NoLine
  /\ genericLine' = line
  /\ UNCHANGED <<frame, pointer, walk, target, zoomEvents, report>>

SetStartPoint == \E startPoint \in LinePoints : LineSet([genericLine EXCEPT !.startPoint = startPoint])

SetStartX == \E startX \in LineCoords : LineSet([genericLine EXCEPT !.startPoint.x = startX])

SetStartY == \E startY \in LineCoords : LineSet([genericLine EXCEPT !.startPoint.y = startY])

SetEndPoint == \E endPoint \in LinePoints : LineSet([genericLine EXCEPT !.endPoint = endPoint])

SetEndX == \E endX \in LineCoords : LineSet([genericLine EXCEPT !.endPoint.x = endX])

SetEndY == \E endY \in LineCoords : LineSet([genericLine EXCEPT !.endPoint.y = endY])

NextLine ==
  \/ ConstructFluidLine
  \/ ConstructPixelLine
  \/ SetStartPoint
  \/ SetStartX
  \/ SetStartY
  \/ SetEndPoint
  \/ SetEndX
  \/ SetEndY

SpecLine == Init /\ [][NextLine]_vars

(***************************************************************************)
(* The earlier iteration of the component pair, src/src/Canvas.tsx and     *)
(* src/src/Frame.tsx: a canvas holds Line objects in lines and PixelLine   *)
(* objects in pixelLines, side by side.  Its definitions carry the prefix  *)
(* v1.  The walk of its propagation is the one above, line for line.       *)
(***************************************************************************)
v1Line(startPoint, endPoint) ==
  [type |-> "Line", startPoint |-> startPoint, endPoint |-> endPoint]

v1NewCanvas ==
  [height |-> DefaultSize, width |-> DefaultSize,
   lines |-> <<>>, pixelLines |-> <<>>, editMode |-> TRUE,
   mouseIsDown |-> FALSE, dragStart |-> Null, dragged |-> TRUE, zoomFactor |-> R(1),
   startPoint |-> Point(R(0), R(0)), endPoint |-> Point(R(0), R(0)),
   lastObject |-> "",
   xform |-> IdentityMatrix, savedTransforms |-> <<IdentityMatrix>>,
   filter |-> NoFilter, savedFilters |-> <<NoFilter>>,
   originalImageData |-> Null]

v1ApplyUpdate(prevState, u) ==
  CASE u.kind = "addLine" ->
         [prevState EXCEPT !.lines = Append(prevState.lines, u.line),
                           !.editMode = u.editMode /\ Len(prevState.lines) + 1 < maxLines]
    [] u.kind = "addPixelLine" ->
         [prevState EXCEPT !.pixelLines = Append(prevState.pixelLines, u.line),
                           !.editMode = u.editMode /\ Len(prevState.pixelLines) + 1 < maxLines]
    [] u.kind = "editMode" ->
         [prevState EXCEPT !.editMode = u.editMode]
    [] u.kind = "undoLine" ->
         [prevState EXCEPT !.lines = DropLast(prevState.lines),
                           !.editMode = Len(prevState.lines) - 1 < maxLines]
    [] u.kind = "undoPixelLine" ->
         [prevState EXCEPT !.pixelLines = DropLast(prevState.pixelLines),
                           !.editMode = Len(prevState.pixelLines) - 1 < maxLines]
    [] u.kind = "undoAll" ->
         [prevState EXCEPT !.lines = <<>>, !.pixelLines = <<>>, !.editMode = TRUE]
    [] u.kind = "size" ->
         [prevState EXCEPT !.height = u.height, !.width = u.width]

RECURSIVE v1ApplyUpdates(_, _)
v1ApplyUpdates(state, q) ==
  IF q = <<>> THEN state ELSE v1ApplyUpdates(v1ApplyUpdate(state, Head(q)), Tail(q))

v1Commit(h) == v1ApplyUpdates(h.c, h.q)

\* addLine guard: room among the lines of the committed state.
v1CanAddLine(c) == Len(c.lines) < maxLines

v1addLine(h, line) ==
  IF v1CanAddLine(h.c)
  THEN SetState([h EXCEPT !.c.lastObject = "line"],
                [kind |-> "addLine", line |-> line, editMode |-> h.c.editMode])
  ELSE h

v1addPixelLine(h, pixelLine) ==
  IF Len(h.c.pixelLines) < maxLines
  THEN SetState([h EXCEPT !.c.lastObject = "pixelLine"],
                [kind |-> "addPixelLine", line |-> pixelLine, editMode |-> h.c.editMode])
  ELSE h

v1undoAll(h) ==
  LET h1 == SetState(h, [kind |-> "undoAll"])
  IN  [h1 EXCEPT !.c = Save(Restore(h1.c))]

v1handleUndo(h) ==
  IF h.c.lastObject = "line" /\ Len(h.c.lines) # 0 THEN SetState(h, [kind |-> "undoLine"])
  ELSE IF h.c.lastObject = "pixelLine" /\ Len(h.c.pixelLines) # 0
       THEN SetState(h, [kind |-> "undoPixelLine"])
       ELSE h

v1handleChange(h) ==
  SetState(h, [kind |-> "editMode", editMode |-> ~h.c.editMode /\ Len(h.c.lines) < maxLines])

\* zoom(clicks): the cumulative zoom factor is kept at or above 1.
v1zoom(c, clicks) ==
  LET pt      == TransformedPoint(c.xform, c.endPoint)
      power   == MathPow(scaleFactor, clicks)
      factor  == IF RLt(RMul(c.zoomFactor, power), R(1)) THEN RDiv(R(1), c.zoomFactor) ELSE power
      scaled  == Scale(Translate(c.xform, pt.x, pt.y), factor)
  IN  [c EXCEPT !.zoomFactor = RMul(c.zoomFactor, factor),
                !.xform = Translate(scaled, RNeg(pt.x), RNeg(pt.y))]

v1handleMouseDown(h, position) ==
  LET c == [h.c EXCEPT !.startPoint = position]
  IN  IF c.editMode /\ Len(c.lines) < maxLines
      THEN [h EXCEPT !.c = [c EXCEPT !.mouseIsDown = TRUE]]
      ELSE [h EXCEPT !.c = [c EXCEPT !.dragStart = <<TransformedPoint(c.xform, position)>>,
                                     !.dragged = FALSE]]

v1handleMouseLeave(h) ==
  LET c == [h.c EXCEPT !.dragged = TRUE, !.dragStart = Null]
  IN  IF c.editMode /\ c.mouseIsDown /\ Len(c.lines) < maxLines
      THEN LET h1 == v1addLine([h EXCEPT !.c = [c EXCEPT !.mouseIsDown = FALSE]],
                               v1Line(TransformedPoint(c.xform, c.startPoint),
                                      TransformedPoint(c.xform, c.endPoint)))
           IN  SetState(h1, [kind |-> "editMode",
                             editMode |-> c.editMode /\ Len(c.lines) < maxLines])
      ELSE [h EXCEPT !.c = c]

v1handleMouseUp(h, position, shiftKey) ==
  LET c == [h.c EXCEPT !.endPoint = position]
  IN  IF c.editMode /\ Len(c.lines) < maxLines
      THEN IF c.mouseIsDown
           THEN v1addLine([h EXCEPT !.c = [c EXCEPT !.mouseIsDown = FALSE]],
                          v1Line(TransformedPoint(c.xform, c.startPoint),
                                 TransformedPoint(c.xform, position)))
           ELSE [h EXCEPT !.c = c]
      ELSE LET released == [c EXCEPT !.dragStart = Null]
           IN  [h EXCEPT !.c = IF ~c.dragged THEN v1zoom(released, IF shiftKey THEN -1 ELSE 1)
                                ELSE released]

v1handleMouseMove(h, position) ==
  LET c == [h.c EXCEPT !.endPoint = position]
  IN  IF c.editMode /\ Len(c.lines) < maxLines
      THEN [h EXCEPT !.c = c]
      ELSE LET d == [c EXCEPT !.dragged = TRUE]
           IN  IF d.dragStart # Null
               THEN LET pt == TransformedPoint(d.xform, position)
                    IN  [h EXCEPT !.c = [d EXCEPT !.xform =
                           Translate(d.xform, RSub(pt.x, d.dragStart[1].x), RSub(pt.y, d.dragStart[1].y))]]
               ELSE [h EXCEPT !.c = d]

RECURSIVE v1AddPropagatedLines(_, _, _, _)
v1AddPropagatedLines(h, lines, mask, rows) ==
  IF lines = <<>> THEN h
  ELSE v1AddPropagatedLines(v1addPixelLine(h, PropagatedLine(Head(lines), mask, rows)),
                            Tail(lines), mask, rows)

\* The guards of propagateLinesToMask: three image lines, dimensions and
\* buffer of the mask defined, and the mask not full of either kind.
v1CanPropagateToMask(imageCanvas, maskCanvas) ==
  /\ ~(\/ Len(imageCanvas.lines) # 3
       \/ maskCanvas.height = 0
       \/ maskCanvas.width = 0
       \/ maskCanvas.originalImageData = Null)
  /\ ~(Len(maskCanvas.lines) = maxLines \/ Len(maskCanvas.pixelLines) = maxLines)

v1propagateLinesToMask(f) ==
  IF v1CanPropagateToMask(f.imageCanvas, f.maskCanvas)
  THEN [f EXCEPT !.maskCanvas =
          v1Commit(v1AddPropagatedLines(v1undoAll(Handler(f.maskCanvas)), f.imageCanvas.lines,
                                        f.maskCanvas.originalImageData[1], f.maskCanvas.height))]
  ELSE f

RECURSIVE v1AddCopiedLines(_, _)
v1AddCopiedLines(h, pixelLines) ==
  IF pixelLines = <<>> THEN h
  ELSE v1AddCopiedLines(v1addLine(h, v1Line(Head(pixelLines).startPoint, Head(pixelLines).endPoint)),
                        Tail(pixelLines))

v1propagateLinesToImage(f) ==
  IF Len(f.maskCanvas.pixelLines) # maxLines THEN f
  ELSE [f EXCEPT !.imageCanvas = v1Commit(v1AddCopiedLines(Handler(f.imageCanvas), f.maskCanvas.pixelLines))]

\* Where the pointer is moved to and released in the earlier pair.
v1Positions == {Point(R(1), R(2))}

v1Init ==
  /\ frame = [imageCanvas |-> v1NewCanvas, maskCanvas |-> v1NewCanvas]
  /\ pointer = "outside"
  /\ walk = NoWalk
  /\ target = NoTarget
  /\ zoomEvents = 0
  /\ genericLine = NoLine
  /\ report = NoReport

v1Handled(k, h) ==
  /\ h.c.xform = frame[k].xform
  /\ frame' = [frame EXCEPT ![k] = v1Commit(h)]
  /\ UNCHANGED <<walk, target, zoomEvents, genericLine, report>>

v1Load(k) ==
  /\ frame[k].originalImageData = Null
  /\ v1Handled(k, onload(Handler(frame[k]), ImageOf(k)))
  /\ UNCHANGED pointer

v1MouseDown(k) ==
  /\ pointer = k
  /\ \E position \in DownPositions : v1Handled(k, v1handleMouseDown(Handler(frame[k]), position))
  /\ UNCHANGED pointer

v1MouseMove(k) ==
  /\ pointer = k
  /\ \E position \in v1Positions : v1Handled(k, v1handleMouseMove(Handler(frame[k]), position))
  /\ UNCHANGED pointer

v1MouseUp(k) ==
  /\ pointer = k
  /\ \E position \in v1Positions, shiftKey \in BOOLEAN :
       v1Handled(k, v1handleMouseUp(Handler(frame[k]), position, shiftKey))
  /\ UNCHANGED pointer

v1MouseLeave(k) ==
  /\ pointer = k
  /\ v1Handled(k, v1handleMouseLeave(Handler(frame[k])))
  /\ pointer' = "outside"

v1HandleChange(k) ==
  /\ pointer = "outside"
  /\ v1Handled(k, v1handleChange(Handler(frame[k])))
  /\ UNCHANGED pointer

v1HandleUndo(k) ==
  /\ pointer = "outside"
  /\ v1Handled(k, v1handleUndo(Handler(frame[k])))
  /\ UNCHANGED pointer

v1UndoAll(k) ==
  /\ pointer = "outside"
  /\ v1Handled(k, v1undoAll(Handler(frame[k])))
  /\ UNCHANGED pointer

v1PropagateLinesToMask ==
  /\ pointer = "outside"
  /\ frame' = v1propagateLinesToMask(frame)
  /\ UNCHANGED <<pointer, walk, target, zoomEvents, genericLine, report>>

v1PropagateLinesToImage ==
  /\ pointer = "outside"
  /\ frame' = v1propagateLinesToImage(frame)
  /\ UNCHANGED <<pointer, walk, target, zoomEvents, genericLine, report>>

v1Next ==
  \/ \E k \in Canvases : v1Load(k)
  \/ \E k \in Canvases : MouseEnter(k)
  \/ \E k \in Canvases : v1MouseDown(k)
  \/ \E k \in Canvases : v1MouseMove(k)
  \/ \E k \in Canvases : v1MouseUp(k)
  \/ \E k \in Canvases : v1MouseLeave(k)
  \/ \E k \in Canvases : v1HandleChange(k)
  \/ \E k \in Canvases : v1HandleUndo(k)
  \/ \E k \in Canvases : v1UndoAll(k)
  \/ v1PropagateLinesToMask
  \/ v1PropagateLinesToImage

SpecV1 == v1Init /\ [][v1Next]_vars

(***************************************************************************)
(* The walk on its own: every source line over every small buffer          *)
(***************************************************************************)
\* Source coordinates are the integers 0 .. MaxCoord and one half.
MaxCoord == 2

WalkCoords == {R(k) : k \in 0 .. MaxCoord} \cup {Rat(1, 2)}

WalkPoints == {Point(x, y) : x \in WalkCoords, y \in WalkCoords}

WalkLines == {FluidLine(p, q) : p \in WalkPoints, q \in WalkPoints}

\* Width and height of the sample buffers.
WalkDims == {<<3, 2>>, <<2, 2>>}

PixelValues == {Foreground, Background, Grey}

\* Every buffer of these dimensions over the three pixel values that holds at
\* most one pixel that is neither foreground nor background.
WalkBuffers ==
  UNION {{ImageData(d[1], d[2], px) :
            px \in {f \in [1 .. d[1] * d[2] -> PixelValues] :
                      Cardinality({i \in DOMAIN f : f[i] = Grey}) <= 1}} : d \in WalkDims}

InitWalk ==
  /\ frame = [imageCanvas |-> NewCanvas, maskCanvas |-> NewCanvas]
  /\ pointer = "outside"
  /\ target \in WalkBuffers
  /\ zoomEvents = 0
  /\ genericLine = NoLine
  /\ report = NoReport
  /\ \E line \in WalkLines : walk = WalkInit(line)

\* One iteration of the walk over the target buffer, or the exit of its loop.
Walk ==
  /\ walk.pc = "loop"
  /\ walk' = WalkStep(walk, target, target.height)
  /\ UNCHANGED <<frame, pointer, target, zoomEvents, genericLine, report>>

NextWalk == Walk

SpecWalk == InitWalk /\ [][NextWalk]_vars

(***************************************************************************)
(* Properties of the walk                                                  *)
(***************************************************************************)
\* The position of the walk after k steps, in closed form.
PathPos(line, k) ==
  LET sl == Slope(RSub(line.endPoint.x, line.startPoint.x), RSub(line.endPoint.y, line.startPoint.y))
  IN  IF k = 0 THEN line.startPoint
      ELSE Point(RAdd(line.startPoint.x, RMul(R(k), sl[1])), RAdd(line.startPoint.y, RMul(R(k), sl[2])))

\* The position lies between the start and the end of the line on both axes.
PathInside(line, p) ==
  /\ IF RGt(line.endPoint.x, line.startPoint.x) THEN RLe(p.x, line.endPoint.x) ELSE RGe(p.x, line.endPoint.x)
  /\ IF RGt(line.endPoint.y, line.startPoint.y) THEN RLe(p.y, line.endPoint.y) ELSE RGe(p.y, line.endPoint.y)

\* The number of positions of the whole path from start to end.
PathLength(line) ==
  Cardinality({k \in 0 .. MaxCoord + 1 : \A j \in 0 .. k : PathInside(line, PathPos(line, j))})

SetMin(S) == CHOOSE m \in S : \A n \in S : m <= n

SetMax(S) == CHOOSE m \in S : \A n \in S : m >= n

\* The steps of the walk so far that read a foreground pixel, and the steps
\* after the first of them that read a background pixel.
VisitedForeground == {i \in 1 .. Len(walk.visited) : IsForeground(target, walk.visited[i].index)}

VisitedStops ==
  {j \in 1 .. Len(walk.visited) :
     /\ VisitedForeground # {}
     /\ j > SetMin(VisitedForeground)
     /\ IsBackground(target, walk.visited[j].index)}

\* C4: a finished walk has found a single contiguous run.  Its output starts at
\* the first walked pixel read as foreground and ends at the last pixel read
\* as foreground before the first background pixel after the start; the walk
\* stopped on that background pixel and otherwise covered the whole path;
\* pixels of any other value neither start nor stop the run.
C4_SingleRun ==
  walk.pc = "done" =>
    LET n == Len(walk.visited)
    IN  IF VisitedForeground = {}
        THEN walk.start = FALSE /\ n = PathLength(walk.line)
        ELSE LET first == SetMin(VisitedForeground)
                 stop  == IF VisitedStops = {} THEN n + 1 ELSE SetMin(VisitedStops)
                 last  == SetMax({i \in VisitedForeground : i < stop})
             IN  /\ walk.start = TRUE
                 /\ Point(walk.maskStartX, walk.maskStartY) = PathPos(walk.line, first - 1)
                 /\ Point(walk.maskEndX, walk.maskEndY) = PathPos(walk.line, last - 1)
                 /\ MathRound(walk.maskStartX)[1] = walk.visited[first].x
                 /\ MathRound(walk.maskStartY)[1] = walk.visited[first].y
                 /\ MathRound(walk.maskEndX)[1] = walk.visited[last].x
                 /\ MathRound(walk.maskEndY)[1] = walk.visited[last].y
                 /\ IF VisitedStops = {} THEN n = PathLength(walk.line) ELSE n = stop

\* A finished walk that found a foreground run, stopped on the background
\* behind it and left a later foreground pixel of the path unread.
C4_Witness ==
  /\ walk.pc = "done"
  /\ VisitedStops # {}
  /\ Len(walk.visited) < PathLength(walk.line)
  /\ LET p == PathPos(walk.line, Len(walk.visited))
     IN  IsForeground(target, PixelIndex(MathRound(p.x), MathRound(p.y), target.height))

\* C5: every pixel the walk visits is read at the index of that pixel in a
\* row-major buffer whose stride is the width of the target.
C5_IndexIsRowMajor ==
  \A i \in 1 .. Len(walk.visited) :
    walk.visited[i].index = walk.visited[i].y * target.width * 4 + walk.visited[i].x * 4

\* The foreground pixels of the target, as <<x, y>> pairs.
ForegroundPixels ==
  {<<x, y>> \in (0 .. target.width - 1) \X (0 .. target.height - 1) :
     target.pixels[y * target.width + x + 1] = Foreground}

\* The pixels of the whole path of the line, in walking order.
PathPixels(line) ==
  [k \in 1 .. PathLength(line) |->
     <<MathRound(PathPos(line, k - 1).x)[1], MathRound(PathPos(line, k - 1).y)[1]>>]

\* The path crosses the foreground pixels as one run from pixel p to pixel q.
CrossesRun(line, p, q) ==
  LET px == PathPixels(line)
      on == {k \in DOMAIN px : px[k] \in ForegroundPixels}
  IN  /\ on # {}
      /\ {px[k] : k \in on} = ForegroundPixels
      /\ on = SetMin(on) .. SetMax(on)
      /\ px[SetMin(on)] = p
      /\ px[SetMax(on)] = q

\* C6: over a target that is background except for one foreground run from
\* pixel P to pixel Q, a walk that crosses the run emits exactly P and Q.
C6_RunEndpoints ==
  (/\ walk.pc = "done"
   /\ \A i \in DOMAIN target.pixels : target.pixels[i] \in {Foreground, Background})
  => \A p, q \in ForegroundPixels :
       CrossesRun(walk.line, p, q) =>
         WalkResult(walk) = PixelLine(Point(R(p[1]), R(p[2])), Point(R(q[1]), R(q[2])))

(***************************************************************************)
(* Properties of the Canvas and the Frame                                  *)
(***************************************************************************)
\* C1: a canvas never stores more than maxLines lines, in lines, in
\* fluidLines or in pixelLines.
C1_AtMostMaxLines ==
  \A k \in Canvases :
    /\ Len(frame[k].lines) <= maxLines
    /\ Len(frame[k].fluidLines) <= maxLines
    /\ Len(frame[k].pixelLines) <= maxLines

\* Both canvases are full: the image by drawing, the mask by propagation.
C1_Witness ==
  /\ Len(frame.imageCanvas.fluidLines) = maxLines
  /\ Len(frame.maskCanvas.pixelLines) = maxLines

\* C2: a canvas that holds maxLines lines is not in edit mode.
C2_FullMeansNoEdit ==
  \A k \in Canvases : Len(frame[k].lines) = maxLines => frame[k].editMode = FALSE

\* Lines that a caller may pass to addFluidLine and addPixelLine.
SampleLines ==
  {FluidLine(p, q) : p \in DownPositions, q \in Positions}
    \cup {PixelLine(p, q) : p \in DownPositions, q \in Positions}

\* C3: on a canvas that already holds maxLines lines or more, addFluidLine
\* and addPixelLine change nothing: no update is queued (lines and editMode
\* stay) and the last recorded variant stays.
C3_AddBeyondMaxRejected ==
  \A k \in Canvases : \A line \in SampleLines :
    Len(frame[k].lines) >= maxLines =>
      /\ addFluidLine(Handler(frame[k]), line) = Handler(frame[k])
      /\ addPixelLine(Handler(frame[k]), line) = Handler(frame[k])

\* A full canvas in edit mode with the mouse button held down on it: the
\* mouse-up or mouse-leave that follows calls addFluidLine.  The canvas is the
\* mask, full of propagated pixel lines.
C3_Witness ==
  /\ Len(frame.maskCanvas.pixelLines) >= maxLines
  /\ frame.maskCanvas.editMode
  /\ frame.maskCanvas.mouseIsDown

\* C7: propagation onto a canvas that already holds maxLines lines leaves
\* the lines of that canvas as they are.
C7_PropagationKeepsFullTarget ==
  /\ Len(frame.maskCanvas.lines) = maxLines =>
       propagateLinesToMask(frame).maskCanvas.lines = frame.maskCanvas.lines
  /\ Len(frame.imageCanvas.lines) = maxLines =>
       propagateLinesToImage(frame).imageCanvas.lines = frame.imageCanvas.lines

\* Views a canvas may be in when the propagation button is clicked.
SampleViews ==
  {IdentityMatrix,
   [a |-> scaleFactor, e |-> R(0), f |-> R(0)],
   [a |-> R(1), e |-> R(1), f |-> R(2)]}

\* The frame with its canvases in the given views.
Viewed(f, imageView, maskView) ==
  [f EXCEPT !.imageCanvas.xform = imageView, !.maskCanvas.xform = maskView]

\* A guard condition of propagateLinesToMask holds: the image does not hold
\* exactly 3 lines, the buffer of the mask is not available, the mask has a
\* non-positive dimension or the mask already holds lines.
C8_GuardHolds(f) ==
  \/ Len(f.imageCanvas.lines) # 3
  \/ f.maskCanvas.originalImageData = Null
  \/ f.maskCanvas.height <= 0
  \/ f.maskCanvas.width <= 0
  \/ Len(f.maskCanvas.lines) > 0

RECURSIVE UndoLastTimes(_, _)
UndoLastTimes(c, n) ==
  IF n = 0 THEN c ELSE UndoLastTimes(Commit(undoLast(Handler(c))), n - 1)

C9_ImageWithinMaxLines == Len(frame.imageCanvas.lines) <= maxLines

\* C11: undoLast on a canvas that holds no lines changes neither its lines
\* nor its editMode, after undoAll as well as after earlier undoLast calls
\* emptied it, whatever the edit switch was set to since.
C11_UndoLastOnEmptyIsNoOp ==
  \A k \in Canvases :
    Len(frame[k].lines) = 0 =>
      LET after == Commit(undoLast(Handler(frame[k])))
      IN  /\ after.lines = frame[k].lines
          /\ after.fluidLines = frame[k].fluidLines
          /\ after.pixelLines = frame[k].pixelLines
          /\ after.editMode = frame[k].editMode

\* C13: on a canvas out of edit mode, undoLast leaves editMode false, and so
\* does the edit switch when the canvas holds maxLines lines of either
\* variant; only the switch below maxLines lines (and undoAll) turns it on.
C13_EditModeReenabledOnlyByToggle ==
  \A k \in Canvases :
    frame[k].editMode = FALSE =>
      /\ Commit(undoLast(Handler(frame[k]))).editMode = FALSE
      /\ Len(frame[k].lines) >= maxLines =>
           Commit(toggleEdit(Handler(frame[k]))).editMode = FALSE

\* The canvas as it is, and holding the full sets of lines that drawing and
\* propagation leave on it: maxLines fluid lines, or maxLines pixel lines.
Stored(c) ==
  LET fluid == [i \in 1 .. maxLines |-> FluidLine(Point(R(0), R(0)), Point(R(i), R(2)))]
      pixel == [i \in 1 .. maxLines |-> PixelLine(Point(R(1), R(i)), Point(R(1), R(2)))]
  IN  {c,
       [c EXCEPT !.lines = fluid, !.fluidLines = fluid, !.pixelLines = <<>>,
                 !.lastObjectType = "FluidLine", !.editMode = FALSE],
       [c EXCEPT !.lines = pixel, !.pixelLines = pixel, !.fluidLines = <<>>,
                 !.lastObjectType = "PixelLine", !.editMode = FALSE]}

\* C12: undoAll leaves the canvas without lines of either variant, in edit
\* mode and with its transform at the saved baseline, which is again the one
\* entry of the stack; the redraw inside undoAll paints under that baseline.
C12_UndoAllResets ==
  \A c \in Stored(frame[ViewCanvas]) :
    LET after == Commit(undoAll(Handler(c)))
    IN  /\ after.lines = <<>> /\ after.fluidLines = <<>> /\ after.pixelLines = <<>>
        /\ after.editMode = TRUE
        /\ after.xform = c.savedTransforms[1]
        /\ after.savedTransforms = <<c.savedTransforms[1]>>
        /\ undoAll(Handler(c)).c.painted = c.savedTransforms[1]
        /\ after.painted = c.savedTransforms[1]

\* A canvas out of edit mode that holds a line and is zoomed and panned.
C12_Witness ==
  /\ frame[ViewCanvas].lines # <<>>
  /\ frame[ViewCanvas].editMode = FALSE
  /\ frame[ViewCanvas].xform.a # R(1)
  /\ frame[ViewCanvas].xform.e # R(0)
  /\ frame[ViewCanvas].painted = frame[ViewCanvas].xform

\* C14: after any sequence of zoom calls from zoomFactor = 1, with the
\* magnitudes of clicks, shift-clicks and wheel events, zoomFactor is at
\* least maxZoomOut.
C14_ZoomFactorAtLeastMinimum ==
  ~NumberLess(frame[ViewCanvas].zoomFactor, maxZoomOutNumber)

C17_DownloadWaitsForBuffer ==
  \A k \in Canvases :
    frame[k].originalImageData = Null => getDownloadURL(frame[k]).result # "TypeError"

\* C16: while the pixel buffer of the mask has not been captured,
\* propagateLinesToMask leaves both canvases as they are, whatever they hold.
C16_NoPropagationBeforeCapture ==
  frame.maskCanvas.originalImageData = Null => propagateLinesToMask(frame) = frame

\* The buffer is the only guard that holds: the image holds maxLines lines
\* and the mask none; the mask is out of edit mode, which undoAll would end.
C16_Witness ==
  /\ frame.maskCanvas.originalImageData = Null
  /\ Len(frame.imageCanvas.lines) = maxLines
  /\ Len(frame.maskCanvas.lines) = 0
  /\ frame.maskCanvas.editMode = FALSE

\* C18: a finished walk that read no foreground pixel emits the pixel line
\* from (0, 0) to (0, 0), whose length is 0.
C18_NoForegroundGivesZeroLine ==
  (walk.pc = "done" /\ VisitedForeground = {}) =>
    /\ WalkResult(walk) = PixelLine(Point(R(0), R(0)), Point(R(0), R(0)))
    /\ LengthSquared(WalkResult(walk)) = R(0)

\* A finished walk of several pixels, none foreground, along a line that
\* does not start at the origin.
C18_Witness ==
  /\ walk.pc = "done"
  /\ VisitedForeground = {}
  /\ Len(walk.visited) >= 2
  /\ walk.line.startPoint # Point(R(0), R(0))

\* C19: the line that propagation emits for a source line whose walk found
\* no foreground is not stored among the lines of the mask.
C19_NotFoundIsNotStored ==
  CanPropagateToMask(frame.imageCanvas, frame.maskCanvas) =>
    LET mask  == frame.maskCanvas.originalImageData[1]
        rows  == frame.maskCanvas.height
        after == propagateLinesToMask(frame).maskCanvas
    IN  \A i \in 1 .. Len(frame.imageCanvas.lines) :
          WalkRun(WalkInit(frame.imageCanvas.lines[i]), mask, rows).start = FALSE =>
            \A j \in 1 .. Len(after.lines) :
              after.lines[j] # PropagatedLine(frame.imageCanvas.lines[i], mask, rows)

\* C20: with maxLines lines on the mask and fewer on the image,
\* propagateLinesToImage leaves on the image exactly maxLines fluid lines
\* with the end points of the lines of the mask, in their order.
C20_ReversePropagationCopies ==
  (Len(frame.maskCanvas.lines) = maxLines /\ Len(frame.imageCanvas.lines) < maxLines) =>
    LET after == propagateLinesToImage(frame).imageCanvas
    IN  /\ Len(after.fluidLines) = maxLines
        /\ after.lines = after.fluidLines
        /\ after.pixelLines = <<>>
        /\ \A i \in 1 .. maxLines :
             after.fluidLines[i] = FluidLine(frame.maskCanvas.lines[i].startPoint,
                                             frame.maskCanvas.lines[i].endPoint)

\* The mask holds maxLines lines that are not all alike and whose ends
\* differ, the image holds one line or two.
C20_Witness ==
  /\ Len(frame.maskCanvas.lines) = maxLines
  /\ Len(frame.imageCanvas.lines) \in {1, 2}
  /\ frame.maskCanvas.lines[1] # frame.maskCanvas.lines[2]
  /\ frame.maskCanvas.lines[1].startPoint # frame.maskCanvas.lines[1].endPoint

\* What propagation leaves alone on the canvas it reads from.
SourceKept(before, after) ==
  /\ after.lines = before.lines
  /\ after.fluidLines = before.fluidLines
  /\ after.pixelLines = before.pixelLines
  /\ after.editMode = before.editMode
  /\ after.xform = before.xform
  /\ after.savedTransforms = before.savedTransforms
  /\ after.zoomFactor = before.zoomFactor

\* C21: propagation changes its target only: propagateLinesToMask leaves the
\* lines, editMode, transform and zoomFactor of the image canvas as they
\* are, and propagateLinesToImage those of the mask canvas, whatever the
\* views of the two canvases.
C21_PropagationKeepsSource ==
  \A imageView \in SampleViews, maskView \in SampleViews :
    LET f == Viewed(frame, imageView, maskView)
    IN  /\ SourceKept(f.imageCanvas, propagateLinesToMask(f).imageCanvas)
        /\ SourceKept(f.maskCanvas, propagateLinesToImage(f).maskCanvas)

\* The mask holds the maxLines pixel lines of a propagation from the image,
\* and a propagation back changes the image.
C21_Witness ==
  /\ Len(frame.maskCanvas.pixelLines) = maxLines
  /\ Len(frame.imageCanvas.lines) = maxLines
  /\ propagateLinesToImage(frame).imageCanvas # frame.imageCanvas

\* The least of the numbers of a sequence, and their sum.
LeastOf(numbers) ==
  CHOOSE m \in {numbers[i] : i \in 1 .. Len(numbers)} :
    \A i \in 1 .. Len(numbers) : RLe(m, numbers[i])

RECURSIVE SumOf(_)
SumOf(numbers) == IF numbers = <<>> THEN R(0) ELSE RAdd(Head(numbers), SumOf(Tail(numbers)))

LengthsOf(lines) == [i \in 1 .. Len(lines) |-> LineLength(lines[i])]

\* The lengths of the lines, whatever their order, are these.
HasLengths(lines, a, b, c) ==
  \E i, j, k \in 1 .. 3 :
    /\ {i, j, k} = {1, 2, 3}
    /\ LengthsOf(lines) = [n \in 1 .. 3 |-> IF n = i THEN a ELSE IF n = j THEN b ELSE c]

\* C22: for a canvas holding 3 lines, in whatever order they were stored,
\* computeDiameterStenosisPercentage returns 2 * d_min / (d_a + d_b) * 100,
\* d_min the least length and d_a, d_b the other two, unrounded; lengths
\* 4, 10, 10 give 40 and lengths 10, 10, 10 give 100.
C22_DiameterStenosis ==
  Len(report.lines) = 3 =>
    LET lengths == LengthsOf(report.lines)
        least   == LeastOf(lengths)
    IN  /\ report.diameter = RMul(RDiv(RMul(R(2), least), RSub(SumOf(lengths), least)), R(100))
        /\ HasLengths(report.lines, R(4), R(10), R(10)) => report.diameter = R(40)
        /\ HasLengths(report.lines, R(10), R(10), R(10)) => report.diameter = R(100)

\* The percentage was computed for lines of lengths 10, 4, 10, stored in
\* that order.
C22_Witness ==
  /\ Len(report.lines) = 3
  /\ LengthsOf(report.lines) = <<R(10), R(4), R(10)>>
  /\ report.diameter = R(40)

SquaresOf(lines) == [i \in 1 .. Len(lines) |-> LengthSquared(lines[i])]

\* C23: for a canvas holding 3 lines, computeAreaStenosisPercentage returns
\* 2 * d_min^2 / (d_a^2 + d_b^2) * 100, the ratio of twice the area of the
\* circle of diameter d_min to the areas of the circles of the other two
\* diameters; lengths 4, 10, 10 give 16 and lengths 10, 10, 10 give 100.
C23_AreaStenosis ==
  Len(report.lines) = 3 =>
    LET squares == SquaresOf(report.lines)
        least   == LeastOf(squares)
    IN  /\ report.area = RMul(RDiv(RMul(R(2), least), RSub(SumOf(squares), least)), R(100))
        /\ HasLengths(report.lines, R(4), R(10), R(10)) => report.area = R(16)
        /\ HasLengths(report.lines, R(10), R(10), R(10)) => report.area = R(100)

\* The percentage was computed for lines of lengths 10, 10, 4, stored in
\* that order.
C23_Witness ==
  /\ Len(report.lines) = 3
  /\ LengthsOf(report.lines) = <<R(10), R(10), R(4)>>
  /\ report.area = R(16)

C25_OneVariantAtATime ==
  \A k \in Canvases :
    /\ frame[k].fluidLines = <<>> \/ frame[k].pixelLines = <<>>
    /\ frame[k].lines = frame[k].fluidLines \o frame[k].pixelLines

\* The mask holds propagated pixel lines and is in edit mode with the mouse
\* button down on it: the release asks for a fluid line on that canvas.
C25_Witness ==
  /\ frame.maskCanvas.pixelLines # <<>>
  /\ frame.maskCanvas.editMode
  /\ frame.maskCanvas.mouseIsDown
  /\ frame.imageCanvas.fluidLines # <<>>

\* C26: for a line of either variant, after its construction and whatever
\* setters were called since, the square of length is the square of the
\* distance between its start point and its end point of the moment.
C26_LengthIsDistance ==
  genericLine # NoLine =>
    Squared(genericLine.length) = LengthSquared(genericLine)

\* A PixelLine comes out of its constructor.
PixelLineConstructed == genericLine = NoLine /\ genericLine'.type = "PixelLine"

RoundedPoint(p) == Point(MathRound(p.x), MathRound(p.y))

\* C27: the path a PixelLine computes, for whole or fractional coordinates
\* of its ends and any direction, starts at the rounded start point and
\* ends at the rounded end point.
C27_PathJoinsRoundedEnds ==
  [][PixelLineConstructed =>
       /\ genericLine'.points # <<>>
       /\ genericLine'.points[1] = RoundedPoint(genericLine'.startPoint)
       /\ genericLine'.points[Len(genericLine'.points)] = RoundedPoint(genericLine'.endPoint)]_vars

WholePixel(p) == p.x[2] = 1 /\ p.y[2] = 1

\* C28: the path of a PixelLine holds whole-number pixels only, no two of its
\* points are the same pixel, and so no two consecutive ones are either.
C28_PathPixelsDistinct ==
  genericLine.type = "PixelLine" =>
    LET points == genericLine.points IN
      /\ \A i \in 1..Len(points) : WholePixel(points[i])
      /\ \A i \in 1..Len(points) : \A j \in 1..Len(points) :
           i # j => points[i] # points[j]
      /\ \A i \in 1..(Len(points) - 1) : points[i] # points[i + 1]

\* A path of six pixels from a fractional start, drawn leftwards and
\* downwards with the steeper axis vertical.
C28_Witness ==
  /\ genericLine.type = "PixelLine"
  /\ genericLine.startPoint = Point(Rat(3, 2), R(0))
  /\ genericLine.endPoint = Point(R(0), R(MaxLineCoord))
  /\ Len(genericLine.points) = MaxLineCoord + 1

UnitStep(delta) == IF RGt(delta, R(0)) THEN R(1) ELSE R(-1)

\* What the claim asks of the slope of a line from start to end, the ends
\* being different points.
SlopeAsStated(slope, start, end) ==
  LET deltaX == RSub(end.x, start.x)
      deltaY == RSub(end.y, start.y)
  IN /\ RGt(RAbs(deltaX), RAbs(deltaY)) =>
          /\ slope[1] = UnitStep(deltaX)
          /\ slope[2] = RDiv(deltaY, RAbs(deltaX))
     /\ RGt(RAbs(deltaY), RAbs(deltaX)) =>
          /\ slope[2] = UnitStep(deltaY)
          /\ slope[1] = RDiv(deltaX, RAbs(deltaY))
     /\ RAbs(deltaX) = RAbs(deltaY) =>
          /\ slope[1] = UnitStep(deltaX)
          /\ slope[2] = UnitStep(deltaY)
     /\ RLe(RAbs(slope[1]), R(1))
     /\ RLe(RAbs(slope[2]), R(1))

\* C29: a PixelLine built between two different points steps the axis with
\* the greater absolute delta by +1 or -1, with the sign of that delta, and
\* the other axis by delta_minor / |delta_major|, of magnitude at most 1; from
\* (0,0) to (5,2) the slope is [1, 2/5] and the path is (0,0), (1,0), (2,1),
\* (3,1), (4,2), (5,2).
C29_SlopeStepsMajorAxis ==
  [][PixelLineConstructed =>
       /\ genericLine'.startPoint # genericLine'.endPoint =>
            SlopeAsStated(genericLine'.slope, genericLine'.startPoint, genericLine'.endPoint)
       /\ (/\ genericLine'.startPoint = Point(R(0), R(0))
           /\ genericLine'.endPoint = Point(R(5), R(2))) =>
            /\ genericLine'.slope = <<R(1), Rat(2, 5)>>
            /\ genericLine'.points = << Point(R(0), R(0)), Point(R(1), R(0)),
                                        Point(R(2), R(1)), Point(R(3), R(1)),
                                        Point(R(4), R(2)), Point(R(5), R(2)) >>]_vars

\* The PixelLine from (0,0) to (5,2) as its constructor leaves it.
C29_Witness ==
  /\ genericLine.type = "PixelLine"
  /\ genericLine.startPoint = Point(R(0), R(0))
  /\ genericLine.endPoint = Point(R(5), R(2))
  /\ genericLine.slope = <<R(1), Rat(2, 5)>>
  /\ Len(genericLine.points) = 6

\* What the user sees of a canvas: the transform its content was painted
\* under, the filter of the background, the lines and their filter.
Visible(c) == [transform |-> c.painted, shown |-> c.shown]

\* The step has given brightness or contrast of the canvas another value.
FilterValueChanged(k) ==
  \/ frame'[k].brightness # frame[k].brightness
  \/ frame'[k].contrast # frame[k].contrast

\* C30: redraw is idempotent per call.  From any state of a canvas, two
\* redraws in a row show what one redraw shows; and right after brightness
\* or contrast was given another value and the canvas redrawn, a further
\* redraw shows the same again.
C30_RedrawIdempotent ==
  [][\A k \in Canvases :
       /\ Visible(redraw(redraw(frame'[k]))) = Visible(redraw(frame'[k]))
       /\ FilterValueChanged(k) => Visible(redraw(frame'[k])) = Visible(frame'[k])]_vars

\* What getDownloadURL hands to toDataURL: the pixel buffer put on the canvas,
\* the transform the content is painted under and what is drawn.
Composite(c) ==
  LET downloaded == getDownloadURL(c).c
  IN  [buffer    |-> c.originalImageData,
       transform |-> downloaded.painted,
       shown     |-> downloaded.shown]

\* The composite of a canvas that holds the same buffer and the same lines
\* and was never zoomed nor panned.
CompositeAtBaseline(c) ==
  [buffer    |-> c.originalImageData,
   transform |-> IdentityMatrix,
   shown     |-> Shown(NoFilter, NoFilter, c.fluidLines, c.pixelLines)]

C32_PropagationStoresOnePerLine ==
  CanPropagateToMask(frame.imageCanvas, frame.maskCanvas) =>
    LET after == propagateLinesToMask(frame).maskCanvas
        mask  == frame.maskCanvas.originalImageData[1]
        rows  == frame.maskCanvas.height
    IN  /\ Len(after.pixelLines) = maxLines
        /\ \A i \in 1..maxLines :
             after.pixelLines[i] = PropagatedLine(frame.imageCanvas.lines[i], mask, rows)
        /\ after.lines = after.pixelLines
        /\ after.fluidLines = <<>>
        /\ ~after.editMode

\* The image holds three lines that are not all alike and the propagation
\* would run, the mask being in edit mode.
C32_Witness ==
  /\ CanPropagateToMask(frame.imageCanvas, frame.maskCanvas)
  /\ frame.maskCanvas.editMode
  /\ frame.imageCanvas.lines[1] # frame.imageCanvas.lines[maxLines]
  /\ propagateLinesToMask(frame).maskCanvas.pixelLines[1]
       # propagateLinesToMask(frame).maskCanvas.pixelLines[maxLines]

\* A click on a canvas: the mouse button goes down and up at one position,
\* with no move in between.
Click(c, position, shiftKey) ==
  LET down == Commit(handleMouseDown(Handler(c), position))
  IN  Commit(handleMouseUp(Handler(down), position, shiftKey))

\* A pan: the button goes down, the pointer moves, the button goes up where
\* the pointer was moved to.
Pan(c, from, to, shiftKey) ==
  LET down  == Commit(handleMouseDown(Handler(c), from))
      moved == Commit(handleMouseMove(Handler(down), to))
  IN  Commit(handleMouseUp(Handler(moved), to, shiftKey))

\* One step of zoom at the position, in, or out with shift.
ZoomedOneStep(c, position, shiftKey) ==
  zoom([c EXCEPT !.endPoint = position], IF shiftKey THEN -1 ELSE 1)

\* C33: out of edit mode, the mouse-up of a click (no move since the
\* mouse-down) zooms by one step, in, or out with shift, and the mouse-up
\* that ends a pan does not zoom.
C33_ClickZoomsPanDoesNot ==
  \A k \in Canvases :
    ~frame[k].editMode =>
      \A position \in ViewPositions, shiftKey \in BOOLEAN :
        /\ Click(frame[k], position, shiftKey).zoomFactor
             = ZoomedOneStep(frame[k], position, shiftKey).zoomFactor
        /\ Click(frame[k], position, shiftKey).xform
             = ZoomedOneStep(frame[k], position, shiftKey).xform
        /\ \A to \in ViewPositions \ {position} :
             Pan(frame[k], position, to, shiftKey).zoomFactor = frame[k].zoomFactor

\* C34: in every state of a canvas, after any interleaving of zoom, pan,
\* undoAll and getDownloadURL, zoomFactor is the uniform scale of the tracked
\* transform relative to the baseline view.
C34_ZoomFactorIsViewScale ==
  \A k \in Canvases : frame[k].zoomFactor = frame[k].xform.a

\* Device positions of the pointer and magnitudes of a zoom.
PointerPositions == {Point(R(1), R(0)), Point(R(3), R(2))}

Magnitudes == {-1, 2}

\* The vector from logical point p to logical point q, times factor.
ScaledOffset(p, q, factor) ==
  Point(RMul(RSub(q.x, p.x), factor), RMul(RSub(q.y, p.y), factor))

\* Every device position lies 1/factor times as far from the logical point
\* centre in the view of after as in the view of before.
ScaledFrom(before, after, centre, factor) ==
  \A position \in PointerPositions :
    ScaledOffset(centre, TransformedPoint(after.xform, position), factor)
      = ScaledOffset(centre, TransformedPoint(before.xform, position), R(1))

\* The view of after is the view of before scaled by after.zoomFactor /
\* before.zoomFactor about the logical point the pointer, at the device
\* position, is on: that point stays under the pointer.
ScaledAbout(before, after, device) ==
  /\ TransformedPoint(after.xform, device) = TransformedPoint(before.xform, device)
  /\ after.xform.a = RMul(before.xform.a, RDiv(after.zoomFactor, before.zoomFactor))
  /\ ScaledFrom(before, after, TransformedPoint(before.xform, device),
                RDiv(after.zoomFactor, before.zoomFactor))

ZoomScalesAbout(before, device, magnitude) ==
  ScaledAbout(before, zoom(before, magnitude), device)

\* C35: zoom keeps the point under the pointer fixed: for every transform
\* reached and every magnitude, the logical coordinates of the pointer are
\* the same before and after, and the tracked matrix changes by nothing but
\* the uniform scale of the zoom applied about that point.
C35_ZoomKeepsPointerFixed ==
  \A k \in Canvases : \A position \in PointerPositions, magnitude \in Magnitudes :
    ZoomScalesAbout([frame[k] EXCEPT !.endPoint = position], position, magnitude)

\* A view that was zoomed and panned: a zoom with the pointer at (3,2) moves
\* the origin of the view.
C35_Witness ==
  /\ frame[ViewCanvas].xform.a # R(1)
  /\ frame[ViewCanvas].xform.e # R(0)
  /\ zoom([frame[ViewCanvas] EXCEPT !.endPoint = Point(R(3), R(2))], 2).xform.f
       # frame[ViewCanvas].xform.f

\* floor(|delta_major|) + 1 for a line: the steps the claim allows its walk.
StepBound(line) ==
  LET deltaX == RAbs(RSub(line.endPoint.x, line.startPoint.x))
      deltaY == RAbs(RSub(line.endPoint.y, line.startPoint.y))
      major  == IF RGt(deltaX, deltaY) THEN deltaX ELSE deltaY
  IN  (major[1] \div major[2]) + 1

RECURSIVE PixelSteps(_, _, _)
\* The iterations of the loop of computePixelCoordinates from position w on.
PixelSteps(w, endPoint, slope) ==
  IF PixelCondition(w, endPoint, slope)
  THEN 1 + PixelSteps(PixelBody(w, slope), endPoint, slope)
  ELSE 0

\* The iterations computePixelCoordinates makes for a PixelLine on the ends
\* of the line.
PixelLineSteps(line) ==
  PixelSteps([x |-> line.startPoint.x, y |-> line.startPoint.y,
              lastX |-> RSub(MathRound(line.startPoint.x), R(1)),
              lastY |-> RSub(MathRound(line.startPoint.y), R(1)),
              points |-> <<>>],
             line.endPoint,
             Slope(RSub(line.endPoint.x, line.startPoint.x),
                   RSub(line.endPoint.y, line.startPoint.y)))

\* C36: the slope walk terminates for every line.  The loop of
\* propagateLinesToMask has made at most floor(|delta_major|) + 1 iterations
\* at any moment, whatever the buffer holds, and leaves once it has made
\* that many; computePixelCoordinates makes at most as many on the same
\* ends.  Axis-aligned lines, lines with |deltaX| = |deltaY| and the line
\* with start = end (one step) are among the lines.
C36_WalkTerminates ==
  /\ Len(walk.visited) <= StepBound(walk.line)
  /\ (walk.pc = "loop" /\ Len(walk.visited) = StepBound(walk.line)) =>
       WalkStep(walk, target, target.height).pc = "done"
  /\ PixelLineSteps(walk.line) <= StepBound(walk.line)

\* A walk along a diagonal of two pixels, |deltaX| = |deltaY|, that ran its
\* three iterations and left the loop.
C36_Witness ==
  /\ walk.pc = "done"
  /\ RAbs(walk.deltaX) = R(2)
  /\ RAbs(walk.deltaY) = R(2)
  /\ Len(walk.visited) = 3
  /\ PixelLineSteps(walk.line) = 3

\* Every line of the canvas has a rational length (no root is left standing
\* in it).
RationalLengths(c) == \A i \in 1..Len(c.lines) : Len(LineLength(c.lines[i])) = 2

\* C37: whenever a canvas holds maxLines lines that came from draw gestures
\* or from propagation, one of them at least has a length above 0, so that
\* the sums d_a + d_b and d_a^2 + d_b^2 over the two longest are above 0 and
\* both stenosis computations return a number, never 0/0.
C37_StenosisIsANumber ==
  \A k \in Canvases :
    Len(frame[k].lines) = maxLines =>
      /\ \E i \in 1..maxLines : LengthSquared(frame[k].lines[i]) # R(0)
      /\ RationalLengths(frame[k]) =>
           /\ ~IsNaN(computeDiameterStenosisPercentage(frame[k]))
           /\ ~IsNaN(computeAreaStenosisPercentage(frame[k]))

\* The rounded position of a step of the walk lies outside the target image.
OutsideTarget(step) ==
  \/ step.x < 0
  \/ step.x >= target.width
  \/ step.y < 0
  \/ step.y >= target.height

\* C38: a walked position whose rounded coordinates lie outside the target
\* image is never classified as foreground or background: the walk does not
\* read the bytes of another pixel in its place.
C38_OutsideIsNotClassified ==
  \A i \in 1 .. Len(walk.visited) :
    OutsideTarget(walk.visited[i]) =>
      /\ ~IsForeground(target, walk.visited[i].index)
      /\ ~IsBackground(target, walk.visited[i].index)

\* A draw gesture on a canvas: the mouse button goes down at one position
\* and up at another, each handler committed.
Draw(c, from, to) ==
  LET down == Commit(handleMouseDown(Handler(c), from))
  IN  Commit(handleMouseUp(Handler(down), to, FALSE))

\* C39: edit mode permits line creation.  On a canvas in edit mode that
\* holds fewer than maxLines lines, a completed draw gesture adds exactly one
\* line, the one drawn, whether the lines the canvas holds were drawn or came
\* from propagation.
C39_EditModePermitsDrawing ==
  \A k \in Canvases :
    (frame[k].editMode /\ Len(frame[k].lines) < maxLines) =>
      \A from \in Positions, to \in Positions :
        /\ Len(Draw(frame[k], from, to).lines) = Len(frame[k].lines) + 1
        /\ SubSeq(Draw(frame[k], from, to).lines, 1, Len(frame[k].lines)) = frame[k].lines

====
